---- MODULE Spec2Model ----
(***************************************************************************)
(* Model of the chat server's messaging plane (sanlamamba/chat-app):       *)
(* ConnectionHandler, RoomHandler, MessageHandler, the Room/User/Message   *)
(* services, the mongoose models they write, the rate limiter and the      *)
(* content validator.                                                      *)
(*                                                                         *)
(* A handler is an async function: it runs from one await on I/O to the    *)
(* next without interruption, and any other handler may run in between.    *)
(* Each in-flight handler is a record in `handlers` with its position      *)
(* `pc`; one action of the model is one such uninterrupted stretch.        *)
(***************************************************************************)
EXTENDS Integers, Sequences, FiniteSets, TLC

(* ------------------------------ bounds --------------------------------- *)
MaxConns == 2
MaxFrames == 3
MaxInFlight == 2
MaxTime == 8
MaxRateFrames == 12
MaxRateTime == 2
MaxChatFrames == 3
MaxMemberFrames == 2
MaxSanLen == 3
MaxBusFrames == 3
MaxOrderFrames == 3
MaxRounds == 3
MaxSignals == 2
MaxAuthFrames == 2
MaxRejectFrames == 2
TicksPerSecond == 2

(* ------------------------- program constants --------------------------- *)
RATE_LIMIT_MESSAGES_POINTS == 10
RATE_LIMIT_MESSAGES_DURATION == 1
RATE_LIMIT_MESSAGES_BLOCK_DURATION == 60
RATE_LIMIT_ROOMS_POINTS == 5
RATE_LIMIT_ROOMS_DURATION == 3600
RATE_LIMIT_ROOMS_BLOCK_DURATION == 3600
TYPING_INDICATOR_TTL == 3
HEARTBEAT_INTERVAL == 30
SHUTDOWN_DRAIN == 5
MIN_USERNAME_LENGTH == 2
MAX_MESSAGE_LENGTH == 4096

Conns == 1..MaxConns
Usernames == {"alice", "bob"}
RoomNames == {"lobby", "den"}
FrameRoomNames == {"lobby"}
NoRoom == "null"
NoUser == 0

(* Every connection of the model comes from one remote address. *)
ip(c) == "10.0.0.1"

(* ------------------------------ frames --------------------------------- *)
(* A server frame as written to a socket.  Fields a frame type does not    *)
(* carry hold the defaults.                                                *)
Frame(type) ==
  [type |-> type, code |-> "", message |-> "", room |-> NoRoom, from |-> 0,
   id |-> 0, users |-> {}, memberCount |-> 0, retryAfter |-> 0]

ErrorFrame(code, message) ==
  [Frame("error") EXCEPT !.code = code, !.message = message]

(* ------------------------- utils/validator.js -------------------------- *)
(* A string is a sequence of characters; a character is a one-letter TLA+  *)
(* string, except the tokens "CTRL" (a control byte such as \x01, in the   *)
(* class [\x00-\x08\x0B\x0C\x0E-\x1F\x7F]), "TAB" and "BACKTICK".         *)
UpperCase == <<"A", "B", "C", "D", "E", "F", "G", "H", "I", "J", "K", "L", "M",
               "N", "O", "P", "Q", "R", "S", "T", "U", "V", "W", "X", "Y", "Z">>
LowerCase == <<"a", "b", "c", "d", "e", "f", "g", "h", "i", "j", "k", "l", "m",
               "n", "o", "p", "q", "r", "s", "t", "u", "v", "w", "x", "y", "z">>
Digits == {"0", "1", "2", "3", "4", "5", "6", "7", "8", "9"}

ToLower(c) ==
  IF \E i \in 1..26 : UpperCase[i] = c
  THEN LowerCase[CHOOSE i \in 1..26 : UpperCase[i] = c]
  ELSE c

IsWordChar(c) ==
  \/ \E i \in 1..26 : c = UpperCase[i] \/ c = LowerCase[i]
  \/ c \in Digits
  \/ c = "_"

IsSpace(c) == c \in {" ", "TAB"}

IsControl(c) == c = "CTRL"

(* pat (lower case) occurs in s at position i, ignoring case (flag i). *)
MatchAt(s, i, pat) ==
  /\ i >= 1
  /\ i + Len(pat) - 1 <= Len(s)
  /\ \A k \in 1..Len(pat) : ToLower(s[i + k - 1]) = pat[k]

Contains(s, pat) == \E i \in 1..Len(s) : MatchAt(s, i, pat)

(* s.replace(/pat/gi, ""): every occurrence, left to right, not overlapping. *)
RECURSIVE RemoveLiteralFrom(_, _, _)
RemoveLiteralFrom(s, i, pat) ==
  IF i > Len(s) THEN <<>>
  ELSE IF MatchAt(s, i, pat) THEN RemoveLiteralFrom(s, i + Len(pat), pat)
  ELSE <<s[i]>> \o RemoveLiteralFrom(s, i + 1, pat)

RemoveLiteral(s, pat) == RemoveLiteralFrom(s, 1, pat)

(* End of the match of /<tag[\s\S]*?>[\s\S]*?<\/tag>/gi that starts at i,  *)
(* or 0: the first ">" after the opening, then the first closing tag.      *)
TagMatchEnd(s, i, open, close) ==
  IF ~MatchAt(s, i, open) THEN 0
  ELSE LET gts == {j \in (i + Len(open))..Len(s) : s[j] = ">"}
       IN IF gts = {} THEN 0
          ELSE LET j == CHOOSE x \in gts : \A y \in gts : x <= y
                   ks == {k \in (j + 1)..Len(s) : MatchAt(s, k, close)}
               IN IF ks = {} THEN 0
                  ELSE (CHOOSE x \in ks : \A y \in ks : x <= y) + Len(close) - 1

RECURSIVE RemoveTagFrom(_, _, _, _)
RemoveTagFrom(s, i, open, close) ==
  IF i > Len(s) THEN <<>>
  ELSE LET e == TagMatchEnd(s, i, open, close)
       IN IF e > 0 THEN RemoveTagFrom(s, e + 1, open, close)
          ELSE <<s[i]>> \o RemoveTagFrom(s, i + 1, open, close)

RemoveTag(s, open, close) == RemoveTagFrom(s, 1, open, close)

(* xssPatterns.forEach(pattern => sanitized = sanitized.replace(pattern, "")) *)
xssPatterns(s) ==
  LET s1 == RemoveTag(s, <<"<", "s", "c", "r", "i", "p", "t">>, <<"<", "/", "s", "c", "r", "i", "p", "t", ">">>)
      s2 == RemoveTag(s1, <<"<", "i", "f", "r", "a", "m", "e">>, <<"<", "/", "i", "f", "r", "a", "m", "e", ">">>)
      s3 == RemoveLiteral(s2, <<"j", "a", "v", "a", "s", "c", "r", "i", "p", "t", ":">>)
      s4 == RemoveLiteral(s3, <<"v", "b", "s", "c", "r", "i", "p", "t", ":">>)
      s5 == RemoveLiteral(s4, <<"o", "n", "l", "o", "a", "d", "=">>)
      s6 == RemoveLiteral(s5, <<"o", "n", "e", "r", "r", "o", "r", "=">>)
      s7 == RemoveLiteral(s6, <<"o", "n", "c", "l", "i", "c", "k", "=">>)
      s8 == RemoveLiteral(s7, <<"o", "n", "m", "o", "u", "s", "e", "o", "v", "e", "r", "=">>)
      s9 == RemoveTag(s8, <<"<", "o", "b", "j", "e", "c", "t">>, <<"<", "/", "o", "b", "j", "e", "c", "t", ">">>)
  IN RemoveTag(s9, <<"<", "e", "m", "b", "e", "d">>, <<"<", "/", "e", "m", "b", "e", "d", ">">>)

SqlKeywords ==
  { <<"a", "l", "t", "e", "r">>, <<"c", "r", "e", "a", "t", "e">>, <<"d", "e", "l", "e", "t", "e">>, <<"d", "r", "o", "p">>, <<"e", "x", "e", "c">>, <<"e", "x", "e", "c", "u", "t", "e">>, <<"i", "n", "s", "e", "r", "t">>,
    <<"m", "e", "r", "g", "e">>, <<"s", "e", "l", "e", "c", "t">>, <<"u", "p", "d", "a", "t", "e">>, <<"u", "n", "i", "o", "n">> }

(* /\b(KEYWORD)\b/i matches at i *)
KeywordAt(s, i, kw) ==
  /\ MatchAt(s, i, kw)
  /\ (i = 1 \/ ~IsWordChar(s[i - 1]))
  /\ (i + Len(kw) > Len(s) \/ ~IsWordChar(s[i + Len(kw)]))

(* sqlInjectionPatterns.some(pattern => pattern.test(sanitized)) *)
sqlInjectionPatterns(s) ==
  \/ \E kw \in SqlKeywords : \E i \in 1..Len(s) : KeywordAt(s, i, kw)
  \/ Contains(s, <<"-", "-">>) \/ Contains(s, <<"/", "*">>)
  \/ Contains(s, <<"*", "/">>) \/ Contains(s, <<";">>)
  \/ \E i \in 1..Len(s) : s[i] \in {"'", ";", ",", ">", "<"}
  \/ Contains(s, <<"x", "p", "_">>) \/ Contains(s, <<"s", "p", "_">>) \/ Contains(s, <<"a", "d", "m", "i", "n">>)

htmlEntities(c) ==
  CASE c = "<" -> <<"&", "l", "t", ";">>
    [] c = ">" -> <<"&", "g", "t", ";">>
    [] c = "\"" -> <<"&", "q", "u", "o", "t", ";">>
    [] c = "'" -> <<"&", "#", "x", "2", "7", ";">>
    [] c = "/" -> <<"&", "#", "x", "2", "F", ";">>
    [] c = "&" -> <<"&", "a", "m", "p", ";">>
    [] c = "BACKTICK" -> <<"&", "#", "x", "6", "0", ";">>
    [] c = "=" -> <<"&", "#", "x", "3", "D", ";">>
    [] OTHER -> <<c>>

RECURSIVE EscapeHtml(_)
EscapeHtml(s) ==
  IF s = <<>> THEN <<>> ELSE htmlEntities(Head(s)) \o EscapeHtml(Tail(s))

StripControl(s) == SelectSeq(s, LAMBDA c : ~IsControl(c))

(* Length of the run of whitespace that starts at i. *)
RECURSIVE SpaceRun(_, _)
SpaceRun(s, i) ==
  IF i > Len(s) \/ ~IsSpace(s[i]) THEN 0 ELSE 1 + SpaceRun(s, i + 1)

(* s.replace(/\s{3,}/g, "  ") *)
RECURSIVE CollapseFrom(_, _)
CollapseFrom(s, i) ==
  IF i > Len(s) THEN <<>>
  ELSE LET n == SpaceRun(s, i)
       IN IF n >= 3 THEN <<" ", " ">> \o CollapseFrom(s, i + n)
          ELSE <<s[i]>> \o CollapseFrom(s, i + 1)

CollapseSpaces(s) == CollapseFrom(s, 1)

RECURSIVE TrimLeft(_)
TrimLeft(s) ==
  IF s # <<>> /\ IsSpace(Head(s)) THEN TrimLeft(Tail(s)) ELSE s

RECURSIVE TrimRight(_)
TrimRight(s) ==
  IF s # <<>> /\ IsSpace(s[Len(s)]) THEN TrimRight(SubSeq(s, 1, Len(s) - 1))
  ELSE s

Trim(s) == TrimRight(TrimLeft(s))

(* Validator.sanitizeContent: [ok |-> FALSE] stands for the thrown Error   *)
(* "Content contains potentially harmful patterns".                        *)
sanitizeContent(content) ==
  LET sanitized == xssPatterns(content)
  IN IF sqlInjectionPatterns(sanitized)
     THEN [ok |-> FALSE, value |-> <<>>]
     ELSE [ok |-> TRUE,
           value |-> Trim(CollapseSpaces(StripControl(EscapeHtml(sanitized))))]

(* Validator.validateMessage *)
validateMessage(message) ==
  /\ message # <<>>
  /\ Trim(message) # <<>>
  /\ Len(Trim(message)) <= MAX_MESSAGE_LENGTH


(* ------------------------------- state --------------------------------- *)
VARIABLES
  conns,              \* ConnectionHandler.connections: ws -> connectionInfo (+ ws.readyState)
  out,                \* frames written to each socket, in order
  handlers,           \* async handlers in flight
  nextHid,            \* handlers started so far
  budget,             \* client frames the environment may still send
  users,              \* User collection
  nextUserId,         \* user ids handed out so far (uuidv4)
  activeConnections,  \* UserService.activeConnections: socketId -> userId
  userSockets,        \* UserService.userSockets: userId -> Set(socketId)
  rooms,              \* Room collection, one document per unique name
  localRoomCache,     \* RoomService.localRoomCache
  roomCreationMutex,  \* RoomService.roomCreationMutex: 0 or the holder's hid
  memberships,        \* RoomMembership collection
  nextDocId,          \* _id of the next membership document
  messages,           \* Message collection, in insertion order
  redisUp,            \* a Redis client exists (getRedisClient() / getRedisSubClient())
  redisPubClient,     \* getRedisPubClient(): "null", or a client that is "ready" or "down"
  redisMembers,       \* Redis sets room:{id}:members
  redisTyping,        \* Redis sets room:{id}:typing with their expiry
  now,                \* wall clock, seconds
  limiter,            \* RateLimiter: the RateLimiterMemory records of the address
  joinMark,           \* history: per joiner, the peers in the room at its join and their log length
  typingMark,         \* history: per connection, time of a typing_start not followed by a frame
  sent,               \* history: per successful send_message, the other active members at fan-out
  received,           \* history: every client frame, its rate-limit outcome and its reply
  sanIn, sanOut, sanAgain, \* validator: an input, sanitizeContent of it, and of the result
  isAlive,            \* ws.isAlive of each socket
  heartbeat,          \* history: heartbeat rounds, outstanding pings, terminations
  shutdown,           \* WebSocketServer.isShuttingDown and the position of shutdown()
  breaker,            \* redisCircuitBreaker and the execute calls awaiting their operation
  cache,              \* CacheManager: localCache, the Redis keys, the dependency maps
  roomSubscriptions,  \* RoomHandler.roomSubscriptions: the rooms whose channels are subscribed
  calls               \* history: the MessageService calls made, their arguments and results

vars == <<conns, out, handlers, nextHid, budget, users, nextUserId,
          activeConnections, userSockets, rooms, localRoomCache,
          roomCreationMutex, memberships, nextDocId, messages, redisUp,
          redisPubClient,
          redisMembers, redisTyping, now, limiter, joinMark, typingMark, sent,
          received, sanIn, sanOut, sanAgain, isAlive, heartbeat, shutdown,
          breaker, cache, roomSubscriptions, calls>>

dbVars == <<users, nextUserId, rooms, memberships, nextDocId, messages>>
userMapVars == <<activeConnections, userSockets>>
redisVars == <<redisUp, redisPubClient, redisMembers, redisTyping>>
sanVars == <<sanIn, sanOut, sanAgain>>
histVars == <<joinMark, typingMark, sent, received>>
wsVars == <<isAlive, heartbeat, shutdown>>

NoHandlerFields ==
  [room |-> NoRoom, leaving |-> NoRoom, ret |-> "", username |-> "",
   uid |-> NoUser, mem |-> 0, memActive |-> FALSE, memJoinCount |-> 0,
   cnt |-> -1, content |-> <<>>]

Handler(hid, c, kind, pc) ==
  [hid |-> hid, conn |-> c, kind |-> kind, pc |-> pc] @@ NoHandlerFields

NoLimit == [consumed |-> 0, expire |-> 0]
NoTyping == [members |-> {}, expire |-> -1]
NoMark == [t |-> -1, room |-> NoRoom, at |-> <<>>]

(* No heartbeat round has fired: no ping is outstanding and no socket was  *)
(* terminated.                                                             *)
NoHeartbeat == [round |-> 0, pinged |-> {}, missed |-> {}, terminated |-> {}]

(* `this.isShuttingDown = false` of the ChatServer constructor, with the   *)
(* store and the bus connected by initialize().                            *)
NotShuttingDown ==
  [isShuttingDown |-> FALSE, pc |-> "running", signals |-> 0, sequences |-> 0,
   startedAt |-> -1, drainedAt |-> -1, fleet |-> {}, sent1001 |-> {},
   late |-> {}, cleanups |-> {}, store |-> TRUE, bus |-> TRUE,
   cause |-> "", exitCode |-> -1]

(* `new CircuitBreaker(...)`: CLOSED, no failure and no success counted,   *)
(* lastFailureTime null (-1). The metrics counters are only ever written   *)
(* and are left out. pending holds the execute calls whose operation has   *)
(* not settled; started, openedAt, run, spared, probeRun and last are      *)
(* history: calls so far, the time of the last move to OPEN, the failed    *)
(* calls in a row, the longest such row a success has wiped, the           *)
(* successful probes in a row, and what the last execute did on entry.     *)
NoCall == [at |-> -1, invoked |-> FALSE, ret |-> ""]

NewBreaker ==
  [state |-> "CLOSED", failureCount |-> 0, lastFailureTime |-> -1,
   successCount |-> 0, pending |-> {}, started |-> 0, openedAt |-> -1,
   run |-> 0, spared |-> 0, probeRun |-> 0, last |-> NoCall]

(* `new CacheManager()`: three empty maps, and no key in Redis. got is     *)
(* history: the key and the result of the last get; declared is history:   *)
(* the dependencies passed to the last set of each key still cached.       *)
NoEntry == [value |-> 0, expiresAt |-> -1]

NewCache ==
  [localCache |-> [k \in {} |-> NoEntry], redis |-> [k \in {} |-> NoEntry],
   dependencies |-> [k \in {} |-> {}], reverseDependencies |-> [k \in {} |-> {}],
   ops |-> 0, got |-> [key |-> "", value |-> 0], declared |-> [k \in {} |-> {}]]

(* The state after `new ConnectionHandler(wss)` on an empty database.      *)
InitServer ==
  /\ isAlive = [c \in Conns |-> FALSE]
  /\ heartbeat = NoHeartbeat
  /\ shutdown = NotShuttingDown
  /\ breaker = NewBreaker
  /\ cache = NewCache
  /\ roomSubscriptions = {}
  /\ calls = <<>>
  /\ conns = [c \in Conns |->
                [state |-> "none", authenticated |-> FALSE, userId |-> NoUser,
                 username |-> "", currentRoom |-> NoRoom]]
  /\ out = [c \in Conns |-> <<>>]
  /\ handlers = {}
  /\ nextHid = 1
  /\ users = {}
  /\ nextUserId = 1
  /\ activeConnections = [c \in Conns |-> NoUser]
  /\ userSockets = <<>>
  /\ rooms = [r \in RoomNames |->
                [exists |-> FALSE, isActive |-> FALSE, currentUsers |-> 0]]
  /\ localRoomCache = {}
  /\ roomCreationMutex = 0
  /\ memberships = {}
  /\ nextDocId = 1
  /\ messages = <<>>
  /\ redisMembers = [r \in RoomNames |-> {}]
  /\ redisTyping = [r \in RoomNames |-> NoTyping]
  /\ now = 0
  /\ limiter = [t \in {"send_message", "create_room"} |-> NoLimit]
  /\ joinMark = [c \in Conns |-> NoMark]
  /\ typingMark = [c \in Conns |-> NoMark]
  /\ sent = {}
  /\ received = <<>>

(* connectRedis: the three clients are created together; a server started *)
(* without it has none of them.                                            *)
PubClientFor(up) == IF up THEN "ready" ELSE "null"

NotRun == [done |-> FALSE, ok |-> FALSE, value |-> <<>>]

InitSan ==
  /\ sanIn = <<>>
  /\ sanOut = NotRun
  /\ sanAgain = NotRun

Init ==
  /\ InitServer
  /\ InitSan
  /\ redisUp \in BOOLEAN
  /\ redisPubClient = PubClientFor(redisUp)
  /\ budget = MaxFrames

(* ---------------------- sockets and broadcasts ------------------------- *)
(* sendMessage(ws, data): if (ws.readyState === ws.OPEN) ws.send(...)      *)
sendMessage(o, cs, c, f) ==
  IF cs[c].state = "open" THEN [o EXCEPT ![c] = Append(@, f)] ELSE o

(* A fan-out that does not keep one order for all sockets: the frame is    *)
(* put at the head of the log of every socket but the first.               *)
broadcastToRoom_unordered(o, cs, roomId, f, excludeWs) ==
  [c \in Conns |->
     IF cs[c].state = "open" /\ cs[c].currentRoom = roomId /\ c # excludeWs
     THEN IF c = 1 THEN Append(o[c], f) ELSE <<f>> \o o[c]
     ELSE o[c]]

(* ConnectionHandler.broadcastToRoom(roomId, data, excludeWs): excludeWs 0 *)
(* is the default null.  roomId may be null; null === null holds for every *)
(* connection that is in no room.                                          *)
ConnectionHandler_broadcastToRoom(o, cs, roomId, f, excludeWs) ==
  [c \in Conns |->
     IF cs[c].state = "open" /\ cs[c].currentRoom = roomId /\ c # excludeWs
     THEN Append(o[c], f) ELSE o[c]]

(* MessageHandler.broadcastToRoom: the constructor of ConnectionHandler    *)
(* calls messageHandler.setConnectionHandler(this).                        *)
MessageHandler_connectionHandler == TRUE

MessageHandler_broadcastToRoom(o, cs, roomId, f, excludeWs) ==
  IF MessageHandler_connectionHandler
  THEN ConnectionHandler_broadcastToRoom(o, cs, roomId, f, excludeWs)
  ELSE o

(* RoomHandler.broadcastToRoom: nothing ever calls                         *)
(* roomHandler.setConnectionHandler, so this.connectionHandler is          *)
(* undefined and the broadcast is skipped.                                 *)
RoomHandler_connectionHandler == FALSE

RoomHandler_broadcastToRoom(o, cs, roomId, f, excludeWs) ==
  IF RoomHandler_connectionHandler
  THEN ConnectionHandler_broadcastToRoom(o, cs, roomId, f, excludeWs)
  ELSE o

(* ConnectionHandler.broadcastToAll: every client of the server socket.    *)
broadcastToAll(o, cs, f) ==
  [c \in Conns |-> IF cs[c].state = "open" THEN Append(o[c], f) ELSE o[c]]


(* ---------------------- middleware/RateLimiter.js ---------------------- *)
LimiterOf(type) ==
  CASE type = "send_message" ->
         [points |-> RATE_LIMIT_MESSAGES_POINTS,
          duration |-> RATE_LIMIT_MESSAGES_DURATION,
          blockDuration |-> RATE_LIMIT_MESSAGES_BLOCK_DURATION]
    [] type = "create_room" ->
         [points |-> RATE_LIMIT_ROOMS_POINTS,
          duration |-> RATE_LIMIT_ROOMS_DURATION,
          blockDuration |-> RATE_LIMIT_ROOMS_BLOCK_DURATION]
    [] OTHER -> [points |-> 0, duration |-> 0, blockDuration |-> 0]

(* A limiter whose comparison is off by one: the consume that reaches       *)
(* `points` is already rejected.                                           *)
consume_early(rec, cfg, t) ==
  LET live == rec.expire > t
      consumed == IF live THEN rec.consumed + 1 ELSE 1
      expire == IF live THEN rec.expire ELSE t + cfg.duration * TicksPerSecond
      over == consumed >= cfg.points
      blocked == over /\ cfg.blockDuration > 0 /\ consumed <= cfg.points
      expire2 == IF blocked THEN t + cfg.blockDuration * TicksPerSecond ELSE expire
  IN [rejected |-> over,
      msBeforeNext |-> ((expire2 - t) * 1000) \div TicksPerSecond,
      rec |-> [consumed |-> consumed, expire |-> expire2]]

(* limiter.consume(identifier) of a RateLimiterMemory: one point is added  *)
(* to the record of the key, which lives `duration` seconds from its first *)
(* point; the consume that first exceeds `points` re-arms the record for   *)
(* `blockDuration`; a consume above `points` rejects with msBeforeNext.    *)
consume(rec, cfg, t) ==
  LET live == rec.expire > t
      consumed == IF live THEN rec.consumed + 1 ELSE 1
      expire == IF live THEN rec.expire ELSE t + cfg.duration * TicksPerSecond
      over == consumed > cfg.points
      blocked == over /\ cfg.blockDuration > 0 /\ consumed <= cfg.points + 1
      expire2 == IF blocked THEN t + cfg.blockDuration * TicksPerSecond ELSE expire
  IN [rejected |-> over,
      msBeforeNext |-> ((expire2 - t) * 1000) \div TicksPerSecond,
      rec |-> [consumed |-> consumed, expire |-> expire2]]

(* Math.round(rateLimiterRes.msBeforeNext / 1000) || 60 *)
retryAfterOf(msBeforeNext) ==
  LET rounded == (msBeforeNext + 500) \div 1000
  IN IF rounded = 0 THEN 60 ELSE rounded

(* RateLimiter.checkLimit(identifier, type) *)
checkLimit(lim, type, t) ==
  IF type \notin {"send_message", "create_room"}
  THEN [allowed |-> TRUE, retryAfter |-> 0, lim |-> lim]
  ELSE LET res == consume(lim[type], LimiterOf(type), t)
       IN [allowed |-> ~res.rejected,
           retryAfter |-> IF res.rejected THEN retryAfterOf(res.msBeforeNext) ELSE 0,
           lim |-> [lim EXCEPT ![type] = res.rec]]

(* ------------------------- names and inputs ---------------------------- *)
NameChars(n) ==
  CASE n = "alice" -> <<"a", "l", "i", "c", "e">>
    [] n = "bob" -> <<"b", "o", "b">>
    [] n = "lobby" -> <<"l", "o", "b", "b", "y">>
    [] n = "den" -> <<"d", "e", "n">>
    [] n = "x" -> <<"x">>
    [] OTHER -> <<>>

(* Validator.validateUsername: CONSTANTS.REGEX.USERNAME = /^[a-zA-Z0-9_-]{2,30}$/ *)
validateUsername(n) ==
  LET s == NameChars(n)
  IN /\ s # <<>>
     /\ Len(s) >= MIN_USERNAME_LENGTH
     /\ Len(s) <= 30
     /\ \A i \in 1..Len(s) : IsWordChar(s[i]) \/ s[i] = "-"

(* CONSTANTS.REGEX.ROOM_NAME.test(roomName): /^[a-zA-Z0-9_-\s]{3,50}$/ *)
ROOM_NAME_test(n) ==
  LET s == NameChars(n)
  IN /\ Len(s) >= 3
     /\ Len(s) <= 50
     /\ \A i \in 1..Len(s) : IsWordChar(s[i]) \/ s[i] = "-" \/ IsSpace(s[i])

Contents == { <<"h", "i">> }

ClientFrames ==
  {[type |-> "auth", name |-> n, content |-> <<>>] : n \in Usernames}
  \cup {[type |-> t, name |-> r, content |-> <<>>] :
          t \in {"create_room", "join_room"}, r \in FrameRoomNames}
  \cup {[type |-> "send_message", name |-> "", content |-> x] : x \in Contents}
  \cup {[type |-> t, name |-> "", content |-> <<>>] :
          t \in {"leave_room", "typing_start", "typing_stop"}}

HandledTypes ==
  {"auth", "create_room", "join_room", "leave_room", "send_message",
   "typing_start", "typing_stop", "command"}


(* --------------------- utils/errorHandler.js --------------------------- *)
(* class ValidationError: super(message, 400, ERROR_CODES.INVALID_MESSAGE) *)
ValidationError(message) == ErrorFrame("INVALID_MESSAGE", message)

(* class RateLimitError: code RATE_LIMIT, toJSON adds error.retryAfter     *)
RateLimitError(message, retryAfter) ==
  [ErrorFrame("RATE_LIMIT", message) EXCEPT !.retryAfter = retryAfter]

(* An error that is written to no socket. *)
sendError_silent(o, cs, c, message) == o

(* sendError(ws, message, code = CONSTANTS.ERROR_CODES.INVALID_MESSAGE)    *)
sendError(o, cs, c, message) ==
  sendMessage(o, cs, c, ErrorFrame("INVALID_MESSAGE", message))

(* ------------- handlers, up to their first await on I/O ---------------- *)
(* Each returns the socket logs and the handler left in flight, if any.    *)
Started(o, h) == [o |-> o, h |-> {h}]
Finished(o) == [o |-> o, h |-> {}]

(* ConnectionHandler.handleAuth -> UserService.authenticateUser *)
handleAuth(c, m, hid) ==
  IF m.name = "" THEN Finished(sendError(out, conns, c, "Username is required"))
  ELSE IF ~validateUsername(m.name)
  THEN Finished(sendError(out, conns, c, "Invalid username"))
  ELSE Started(out, [Handler(hid, c, "auth", "auth_find") EXCEPT !.username = m.name])

(* RoomHandler.handleCreateRoom *)
handleCreateRoom(c, m, hid) ==
  IF m.name = "" THEN Finished(sendError(out, conns, c, "Room name is required"))
  ELSE Started(out, [Handler(hid, c, "create_room", "cr_lock") EXCEPT
                       !.room = m.name, !.ret = "create_room"])

(* RoomHandler.handleJoinRoom *)
handleJoinRoom(c, m, hid) ==
  IF m.name = "" THEN Finished(sendError(out, conns, c, "Room name is required"))
  ELSE Started(out, [Handler(hid, c, "join_room", "jr_find") EXCEPT
                       !.room = m.name, !.ret = "join_room"])

(* RoomHandler.handleLeaveRoom *)
handleLeaveRoom(c, m, hid) ==
  IF conns[c].currentRoom = NoRoom
  THEN Finished(sendError(out, conns, c, "You are not in a room"))
  ELSE Started(out, [Handler(hid, c, "leave_room", "l_mem") EXCEPT
                       !.leaving = conns[c].currentRoom, !.ret = "leave_room"])

(* MessageHandler.handleSendMessage *)
handleSendMessage(c, m, hid) ==
  IF conns[c].currentRoom = NoRoom
  THEN Finished(sendError(out, conns, c, "You must join a room first"))
  ELSE IF m.content = <<>>
  THEN Finished(sendError(out, conns, c, "Message content is required"))
  ELSE IF Len(m.content) > MAX_MESSAGE_LENGTH
  THEN Finished(sendError(out, conns, c, "Message too long"))
  ELSE Started(out, [Handler(hid, c, "send_message", "m_send") EXCEPT
                       !.room = conns[c].currentRoom, !.content = m.content])

(* MessageHandler.handleTypingIndicator(ws, connectionInfo, isTyping) *)
handleTypingIndicator(c, m, hid) ==
  IF conns[c].currentRoom = NoRoom THEN Finished(out)
  ELSE Started(out, [Handler(hid, c, m.type, "t_upd") EXCEPT
                       !.room = conns[c].currentRoom])

(* ConnectionHandler.routeMessage *)
routeMessage(c, m, hid) ==
  IF m.type # "auth" /\ ~conns[c].authenticated
  THEN Finished(sendMessage(out, conns, c, ValidationError("Authentication required")))
  ELSE IF m.type \notin HandledTypes
  THEN Finished(sendMessage(out, conns, c, ValidationError("Unknown message type")))
  ELSE CASE m.type = "auth" -> handleAuth(c, m, hid)
         [] m.type = "create_room" -> handleCreateRoom(c, m, hid)
         [] m.type = "join_room" -> handleJoinRoom(c, m, hid)
         [] m.type = "leave_room" -> handleLeaveRoom(c, m, hid)
         [] m.type = "send_message" -> handleSendMessage(c, m, hid)
         [] OTHER -> handleTypingIndicator(c, m, hid)

(* The rate-limit check of ws.on('message'): a rejected frame throws       *)
(* RateLimitError before routeMessage is reached.                          *)
RateLimited(rl) == ~rl.allowed

(* ------------------------------ actions -------------------------------- *)
(* wss.on('connection') -> ConnectionHandler.handleConnection *)
handleConnection(c) ==
  /\ conns[c].state = "none"
  /\ \A d \in Conns : d < c => conns[d].state # "none"
  /\ conns' = [conns EXCEPT ![c].state = "open"]
  /\ isAlive' = [isAlive EXCEPT ![c] = TRUE]
  /\ out' = [out EXCEPT ![c] = Append(@, Frame("system"))]
  /\ UNCHANGED <<handlers, nextHid, budget, dbVars, userMapVars, localRoomCache,
                 roomCreationMutex, redisVars, now, limiter, histVars, sanVars,
                 heartbeat, shutdown, breaker, cache, roomSubscriptions, calls>>

(* The other open connections whose currentRoom is roomId, each with the   *)
(* number of frames written to it so far.                                  *)
Peers(c, roomId) ==
  [p \in {q \in Conns : q # c /\ conns[q].state = "open"
                         /\ conns[q].currentRoom = roomId} |-> Len(out[p])]

(* ws.on('message'): parse, rate limit, route, and the handler's start.    *)
Receive(c, m) ==
  LET rl == checkLimit(limiter, m.type, now)
      r == IF RateLimited(rl)
           THEN Finished(sendMessage(out, conns, c,
                           RateLimitError("Rate limit exceeded", rl.retryAfter)))
           ELSE routeMessage(c, m, nextHid)
  IN /\ conns[c].state = "open"
     /\ budget > 0
     /\ Cardinality(handlers) < MaxInFlight
     /\ budget' = budget - 1
     /\ nextHid' = nextHid + 1
     /\ limiter' = rl.lim
     /\ out' = r.o
     /\ handlers' = handlers \cup r.h
     /\ typingMark' = [typingMark EXCEPT ![c] =
                          IF m.type = "typing_start" /\ r.h # {}
                          THEN [t |-> now, room |-> conns[c].currentRoom,
                                at |-> Peers(c, conns[c].currentRoom)]
                          ELSE NoMark]
     /\ received' = Append(received,
                         [frame |-> nextHid, conn |-> c, type |-> m.type, t |-> now,
                          authenticated |-> conns[c].authenticated,
                          fresh |-> m.type \in DOMAIN limiter => limiter[m.type].expire <= now,
                          allowed |-> rl.allowed,
                          reply |-> IF Len(r.o[c]) > Len(out[c]) THEN Len(r.o[c]) ELSE 0,
                          dispatched |-> r.h # {}])
     /\ UNCHANGED <<conns, dbVars, userMapVars, localRoomCache, roomCreationMutex,
                    redisVars, now, joinMark, sent, sanVars, wsVars, breaker, cache, roomSubscriptions, calls>>


(* ------------------------- handler bookkeeping ------------------------- *)
Goto(h, pc) == (handlers \ {h}) \cup {[h EXCEPT !.pc = pc]}
Replace(h, h2) == (handlers \ {h}) \cup {h2}
Done(h) == handlers \ {h}
Max(a, b) == IF a >= b THEN a ELSE b

(* ------------------------ models/User.js ------------------------------- *)
(* A lookup that finds no user. *)
findOnlineByUsername_none(us, name) == {}

(* User.findOne({ username, isOnline: true }): the ids it may return *)
findOnlineByUsername(us, name) ==
  {u.userId : u \in {x \in us : x.username = name /\ x.isOnline}}

(* User.setUserOnline(userId, false) *)
setUserOffline(us, uid) ==
  {IF u.userId = uid THEN [u EXCEPT !.isOnline = FALSE] ELSE u : u \in us}

(* ------------------- UserService.authenticateUser ---------------------- *)
(* await User.findOne({ username, isOnline: true }) *)
authenticateUser_find(h) ==
  /\ h.pc = "auth_find"
  /\ LET found == findOnlineByUsername(users, h.username)
     IN IF found = {}
        THEN handlers' = Replace(h, [h EXCEPT !.pc = "auth_save", !.uid = NoUser])
        ELSE \E u \in found :
               handlers' = Replace(h, [h EXCEPT !.pc = "auth_save", !.uid = u])
  /\ UNCHANGED <<conns, out, nextHid, budget, users, nextUserId, activeConnections, userSockets, rooms, localRoomCache, roomCreationMutex, memberships, nextDocId, messages, redisUp, redisPubClient, isAlive, heartbeat, shutdown, redisMembers, redisTyping, now, limiter, joinMark, typingMark, sent, received, sanIn, sanOut, sanAgain, breaker, cache, roomSubscriptions, calls>>

(* handleExistingUser, or User.create for a new user; then the maps, and   *)
(* handleAuth marks the connection authenticated and sends auth_success.   *)
authenticateUser_save(h) ==
  /\ h.pc = "auth_save"
  /\ LET c == h.conn
         isNew == h.uid = NoUser
         uid == IF isNew THEN nextUserId ELSE h.uid
         cs == [conns EXCEPT ![c].authenticated = TRUE, ![c].userId = uid,
                             ![c].username = h.username]
     IN /\ users' = IF isNew
                    THEN users \cup {[userId |-> uid, username |-> h.username,
                                      isOnline |-> TRUE]}
                    ELSE users
        /\ nextUserId' = IF isNew THEN nextUserId + 1 ELSE nextUserId
        /\ activeConnections' = [activeConnections EXCEPT ![c] = uid]
        /\ userSockets' =
             IF isNew \/ uid \notin DOMAIN userSockets
             THEN [u \in DOMAIN userSockets \cup {uid} |->
                     IF u = uid THEN {c} ELSE userSockets[u]]
             ELSE [userSockets EXCEPT ![uid] = @ \cup {c}]
        /\ conns' = cs
        /\ out' = sendMessage(out, cs, c, Frame("auth_success"))
  /\ handlers' = Done(h)
  /\ UNCHANGED <<nextHid, budget, rooms, localRoomCache, roomCreationMutex, memberships, nextDocId, messages, redisUp, redisPubClient, isAlive, heartbeat, shutdown, redisMembers, redisTyping, now, limiter, joinMark, typingMark, sent, received, sanIn, sanOut, sanAgain, breaker, cache, roomSubscriptions, calls>>

(* `if (pubClient) await pubClient.publish(...)` of the services: skipped   *)
(* without a client and resolved by a ready one; the command is rejected  *)
(* by a client whose server is unreachable, and the await throws.          *)
publish == redisPubClient # "down"

(* ---------------------- RoomService.createRoom ------------------------- *)
(* Room.findByName: findOne({ name, isActive: true }) *)
findByName(rs, name) == rs[name].exists /\ rs[name].isActive

acquire_unlocked(mutex) == TRUE

(* `await this.roomCreationMutex.acquire()` resolves once the Mutex is     *)
(* free.                                                                   *)
acquire(mutex) == mutex = 0

(* roomCreationMutex.acquire(), the name checks and Room.findByName *)
createRoom_lock(h) ==
  /\ h.pc = "cr_lock"
  /\ acquire(roomCreationMutex)
  /\ LET c == h.conn
     IN IF ~ROOM_NAME_test(h.room)
        THEN /\ out' = sendError(out, conns, c, "Invalid room name format")
             /\ handlers' = Done(h)
             /\ UNCHANGED <<roomCreationMutex, localRoomCache>>
        ELSE IF h.room \in localRoomCache
        THEN /\ out' = sendError(out, conns, c, "Room already exists")
             /\ handlers' = Done(h)
             /\ UNCHANGED <<roomCreationMutex, localRoomCache>>
        ELSE IF findByName(rooms, h.room)
        THEN /\ out' = sendError(out, conns, c, "Room already exists")
             /\ localRoomCache' = localRoomCache \cup {h.room}
             /\ handlers' = Done(h)
             /\ UNCHANGED roomCreationMutex
        ELSE /\ roomCreationMutex' = h.hid
             /\ handlers' = Goto(h, "cr_save")
             /\ UNCHANGED <<out, localRoomCache>>
  /\ UNCHANGED <<conns, nextHid, budget, users, nextUserId, activeConnections, userSockets, rooms, memberships, nextDocId, messages, redisUp, redisPubClient, isAlive, heartbeat, shutdown, redisMembers, redisTyping, now, limiter, joinMark, typingMark, sent, received, sanIn, sanOut, sanAgain, breaker, cache, roomSubscriptions, calls>>

(* Room.createRoom (unique index on name: E11000 -> "ROOM_EXISTS"), the   *)
(* cache entry, the room:created publish (a throw is caught: "Failed to   *)
(* create room"), release(); handleCreateRoom goes on to this.joinRoom.    *)
createRoom_save(h) ==
  /\ h.pc = "cr_save"
  /\ roomCreationMutex' = 0
  /\ IF rooms[h.room].exists
     THEN /\ out' = sendError(out, conns, h.conn, "ROOM_EXISTS")
          /\ handlers' = Done(h)
          /\ UNCHANGED <<rooms, localRoomCache>>
     ELSE /\ rooms' = [rooms EXCEPT ![h.room] =
                         [exists |-> TRUE, isActive |-> TRUE, currentUsers |-> 0]]
          /\ localRoomCache' = localRoomCache \cup {h.room}
          /\ IF publish
             THEN /\ handlers' = Goto(h, "j_find")
                  /\ UNCHANGED out
             ELSE /\ out' = sendError(out, conns, h.conn, "Failed to create room")
                  /\ handlers' = Done(h)
  /\ UNCHANGED <<conns, nextHid, budget, users, nextUserId, activeConnections, userSockets, memberships, nextDocId, messages, redisUp, redisPubClient, isAlive, heartbeat, shutdown, redisMembers, redisTyping, now, limiter, joinMark, typingMark, sent, received, sanIn, sanOut, sanAgain, breaker, cache, roomSubscriptions, calls>>

(* ---------------------- RoomHandler.handleJoinRoom --------------------- *)
(* Room.findByName, then leaveRoom of the current room if there is one.    *)
handleJoinRoom_find(h) ==
  /\ h.pc = "jr_find"
  /\ LET c == h.conn
     IN IF ~findByName(rooms, h.room)
        THEN /\ out' = sendMessage(out, conns, c,
                                   ErrorFrame("ROOM_NOT_FOUND", "Room not found"))
             /\ handlers' = Done(h)
        ELSE IF conns[c].currentRoom # NoRoom
        THEN /\ handlers' = Replace(h, [h EXCEPT !.pc = "l_mem",
                                          !.leaving = conns[c].currentRoom])
             /\ UNCHANGED out
        ELSE /\ handlers' = Goto(h, "j_find")
             /\ UNCHANGED out
  /\ UNCHANGED <<conns, nextHid, budget, users, nextUserId, activeConnections, userSockets, rooms, localRoomCache, roomCreationMutex, memberships, nextDocId, messages, redisUp, redisPubClient, isAlive, heartbeat, shutdown, redisMembers, redisTyping, now, limiter, joinMark, typingMark, sent, received, sanIn, sanOut, sanAgain, breaker, cache, roomSubscriptions, calls>>

(* ---------------------- models/RoomMembership.js ----------------------- *)
(* A collection without the unique index accepts every insert. *)
UniqueMembershipIndex_none(ms, roomId, userId) == TRUE

(* roomMembershipSchema.index({ roomId: 1, userId: 1 }, { unique: true }): *)
(* may a new document for the pair be inserted?                            *)
UniqueMembershipIndex(ms, roomId, userId) ==
  ~\E m \in ms : m.roomId = roomId /\ m.userId = userId

(* this.findOne({ userId, roomId }) *)
findMembership(ms, roomId, userId) ==
  {m \in ms : m.roomId = roomId /\ m.userId = userId}

(* RoomMembership.getActiveRoomMembers(roomId) *)
getActiveRoomMembers(ms, roomId) == {m \in ms : m.roomId = roomId /\ m.isActive}

(* A rejoin that reactivates without counting. *)
rejoin_uncounted(ms, id, loadedJoinCount) ==
  {IF m.id = id THEN [m EXCEPT !.isActive = TRUE, !.leftAt = "null"] ELSE m : m \in ms}

(* membership.rejoin(): isActive = true, leftAt = null, joinCount++ on the *)
(* document as it was loaded, then save()                                  *)
rejoin(ms, id, loadedJoinCount) ==
  {IF m.id = id THEN [m EXCEPT !.isActive = TRUE, !.leftAt = "null",
                              !.joinCount = loadedJoinCount + 1]
   ELSE m : m \in ms}

(* membership.leave(): isActive = false, leftAt = new Date(), save().  leftAt *)
(* is "null" or "date": the instant itself is not kept.                    *)
leave(ms, id) ==
  {IF m.id = id THEN [m EXCEPT !.isActive = FALSE, !.leftAt = "date"] ELSE m : m \in ms}

(* RoomMembership.leaveRoom(userId, roomId): findOne active, then leave() *)
Membership_leaveRoom(ms, roomId, userId) ==
  LET act == {m \in ms : m.roomId = roomId /\ m.userId = userId /\ m.isActive}
  IN IF act = {} THEN ms
     ELSE leave(ms, (CHOOSE m \in act : \A n \in act : m.id <= n.id).id)

(* ----------------------- RoomService.getRoomMembers -------------------- *)
(* The Redis set translated through online users, else the active          *)
(* memberships; the number of entries returned.                            *)
getRoomMembers(roomId) ==
  IF redisUp /\ redisMembers[roomId] # {}
  THEN Cardinality({u \in users : u.userId \in redisMembers[roomId] /\ u.isOnline})
  ELSE Cardinality(getActiveRoomMembers(memberships, roomId))

(* Message.create of MessageService.broadcastSystemMessage(.., "notification") *)
notification(roomId) ==
  [id |-> 0, frame |-> 0, roomId |-> roomId, userId |-> NoUser, type |-> "notification"]

(* After this.joinRoom returns, handleCreateRoom sends room_created.       *)
afterJoin(o, cs, h) ==
  IF h.ret = "create_room"
  THEN sendMessage(o, cs, h.conn, [Frame("room_created") EXCEPT !.room = h.room])
  ELSE o

(* RoomHandler.subscribeToRoom: nothing without a subscriber client *)
subscribeToRoom(subs, roomId) ==
  IF roomId \in subs THEN subs
  ELSE IF ~redisUp THEN subs
  ELSE subs \cup {roomId}

(* RoomHandler.unsubscribeFromRoom *)
unsubscribeFromRoom(subs, roomId) ==
  IF roomId \notin subs THEN subs
  ELSE IF ~redisUp THEN subs
  ELSE subs \ {roomId}

(* ------------- RoomHandler.joinRoom -> RoomService.joinRoom ------------ *)
(* Room.findOne({ roomId, isActive: true }) and, in RoomMembership.joinRoom, *)
(* this.findOne({ userId, roomId })                                        *)
joinRoom_find(h) ==
  /\ h.pc = "j_find"
  /\ LET c == h.conn
         uid == conns[c].userId
         found == findMembership(memberships, h.room, uid)
     IN IF ~(rooms[h.room].exists /\ rooms[h.room].isActive)
        THEN /\ out' = afterJoin(sendError(out, conns, c, "Room not found"), conns, h)
             /\ handlers' = Done(h)
        ELSE /\ UNCHANGED out
             /\ IF found = {}
                THEN handlers' = Replace(h, [h EXCEPT !.pc = "j_mem", !.uid = uid,
                                               !.username = conns[c].username, !.mem = 0])
                ELSE \E m \in found :
                       handlers' = Replace(h, [h EXCEPT !.pc = "j_mem", !.uid = uid,
                                                 !.username = conns[c].username,
                                                 !.mem = m.id, !.memActive = m.isActive,
                                                 !.memJoinCount = m.joinCount])
  /\ UNCHANGED <<conns, nextHid, budget, users, nextUserId, activeConnections, userSockets, rooms, localRoomCache, roomCreationMutex, memberships, nextDocId, messages, redisUp, redisPubClient, isAlive, heartbeat, shutdown, redisMembers, redisTyping, now, limiter, joinMark, typingMark, sent, received, sanIn, sanOut, sanAgain, breaker, cache, roomSubscriptions, calls>>

(* RoomMembership.joinRoom: rejoin() of the loaded document, or save() of  *)
(* a new one (a duplicate key makes RoomService.joinRoom fail).            *)
joinRoom_membership(h) ==
  /\ h.pc = "j_mem"
  /\ IF h.mem # 0
     THEN /\ memberships' = IF h.memActive THEN memberships
                            ELSE rejoin(memberships, h.mem, h.memJoinCount)
          /\ handlers' = Goto(h, "j_cnt")
          /\ UNCHANGED <<nextDocId, out>>
     ELSE IF UniqueMembershipIndex(memberships, h.room, h.uid)
     THEN /\ memberships' = memberships \cup
                              {[id |-> nextDocId, roomId |-> h.room, userId |-> h.uid,
                                username |-> h.username, isActive |-> TRUE,
                                joinCount |-> 1, leftAt |-> "null"]}
          /\ nextDocId' = nextDocId + 1
          /\ handlers' = Goto(h, "j_cnt")
          /\ UNCHANGED out
     ELSE /\ out' = afterJoin(sendError(out, conns, h.conn, "Failed to join room"),
                              conns, h)
          /\ handlers' = Done(h)
          /\ UNCHANGED <<memberships, nextDocId>>
  /\ UNCHANGED <<conns, nextHid, budget, users, nextUserId, activeConnections, userSockets, rooms, localRoomCache, roomCreationMutex, messages, redisUp, redisPubClient, isAlive, heartbeat, shutdown, redisMembers, redisTyping, now, limiter, joinMark, typingMark, sent, received, sanIn, sanOut, sanAgain, breaker, cache, roomSubscriptions, calls>>

(* Room.incrementUserCount: const room = await this.findOne({ roomId }) *)
incrementUserCount_find(h, pc, next) ==
  /\ h.pc = pc
  /\ handlers' = Replace(h, [h EXCEPT !.pc = next,
                               !.cnt = rooms[IF pc = "j_cnt" THEN h.room ELSE h.leaving].currentUsers])
  /\ UNCHANGED <<conns, out, nextHid, budget, users, nextUserId, activeConnections, userSockets, rooms, localRoomCache, roomCreationMutex, memberships, nextDocId, messages, redisUp, redisPubClient, isAlive, heartbeat, shutdown, redisMembers, redisTyping, now, limiter, joinMark, typingMark, sent, received, sanIn, sanOut, sanAgain, breaker, cache, roomSubscriptions, calls>>

(* Room.incrementUserCount: the loaded document changed and saved *)
incrementUserCount_save(rs, roomId, loaded, increment) ==
  LET n == Max(0, loaded + increment)
  IN [rs EXCEPT ![roomId].currentUsers = n,
                ![roomId].isActive = IF n = 0 THEN FALSE ELSE @]

joinRoom_count(h) == incrementUserCount_find(h, "j_cnt", "j_inc")

(* room.save() of incrementUserCount(roomId, 1), the Redis member set and  *)
(* the user_joined publish (a throw is caught: "Failed to join room");     *)
(* RoomHandler.joinRoom then sets connectionInfo.currentRoom.              *)
joinRoom_increment(h) ==
  /\ h.pc = "j_inc"
  /\ rooms' = incrementUserCount_save(rooms, h.room, h.cnt, 1)
  /\ redisMembers' = IF redisUp THEN [redisMembers EXCEPT ![h.room] = @ \cup {h.uid}]
                     ELSE redisMembers
  /\ IF publish
     THEN /\ conns' = [conns EXCEPT ![h.conn].currentRoom = h.room]
          /\ joinMark' = [joinMark EXCEPT ![h.conn] =
                            [t |-> now, room |-> h.room, at |-> Peers(h.conn, h.room)]]
          /\ roomSubscriptions' = subscribeToRoom(roomSubscriptions, h.room)
          /\ handlers' = Goto(h, "j_reply")
          /\ UNCHANGED out
     ELSE /\ out' = afterJoin(sendError(out, conns, h.conn, "Failed to join room"),
                              conns, h)
          /\ handlers' = Done(h)
          /\ UNCHANGED <<conns, joinMark, roomSubscriptions>>
  /\ UNCHANGED <<nextHid, budget, users, nextUserId, activeConnections, userSockets, localRoomCache, roomCreationMutex, memberships, nextDocId, messages, redisUp, redisPubClient, isAlive, heartbeat, shutdown, redisTyping, now, limiter, typingMark, sent, received, sanIn, sanOut, sanAgain, breaker, cache, calls>>

(* getRoomMembers, getMessageHistory, room_joined (+ message_history), the *)
(* join notification, and the user_joined broadcast of RoomHandler.        *)
joinRoom_reply(h) ==
  /\ h.pc = "j_reply"
  /\ LET c == h.conn
         n == getRoomMembers(h.room)
         joined == [Frame("room_joined") EXCEPT !.room = h.room, !.memberCount = n]
         o1 == sendMessage(out, conns, c, joined)
         o2 == IF \E i \in 1..Len(messages) : messages[i].roomId = h.room
               THEN sendMessage(o1, conns, c, [Frame("message_history") EXCEPT !.room = h.room])
               ELSE o1
         o3 == RoomHandler_broadcastToRoom(o2, conns, h.room,
                 [Frame("user_joined") EXCEPT !.room = h.room, !.from = c,
                                              !.memberCount = n], c)
     IN out' = afterJoin(o3, conns, h)
  /\ messages' = Append(messages, notification(h.room))
  /\ handlers' = Done(h)
  /\ UNCHANGED <<conns, nextHid, budget, users, nextUserId, activeConnections, userSockets, rooms, localRoomCache, roomCreationMutex, memberships, nextDocId, redisUp, redisPubClient, isAlive, heartbeat, shutdown, redisMembers, redisTyping, now, limiter, joinMark, typingMark, sent, received, sanIn, sanOut, sanAgain, breaker, cache, roomSubscriptions, calls>>

(* ------------- RoomHandler.leaveRoom -> RoomService.leaveRoom ---------- *)
leaveRoom_membership(h) ==
  /\ h.pc = "l_mem"
  /\ memberships' = Membership_leaveRoom(memberships, h.leaving, conns[h.conn].userId)
  /\ handlers' = Replace(h, [h EXCEPT !.pc = "l_cnt", !.uid = conns[h.conn].userId])
  /\ UNCHANGED <<conns, out, nextHid, budget, users, nextUserId, activeConnections, userSockets, rooms, localRoomCache, roomCreationMutex, nextDocId, messages, redisUp, redisPubClient, isAlive, heartbeat, shutdown, redisMembers, redisTyping, now, limiter, joinMark, typingMark, sent, received, sanIn, sanOut, sanAgain, breaker, cache, roomSubscriptions, calls>>

leaveRoom_count(h) == incrementUserCount_find(h, "l_cnt", "l_dec")

(* room.save() of incrementUserCount(roomId, -1), the Redis sets and the   *)
(* user_left publish; a throw is caught and handleEmptyRoom is not reached *)
leaveRoom_decrement(h) ==
  /\ h.pc = "l_dec"
  /\ rooms' = incrementUserCount_save(rooms, h.leaving, h.cnt, -1)
  /\ redisMembers' = IF redisUp THEN [redisMembers EXCEPT ![h.leaving] = @ \ {h.uid}]
                     ELSE redisMembers
  /\ redisTyping' =
       IF redisUp
       THEN [redisTyping EXCEPT ![h.leaving] =
               IF @.members \ {h.uid} = {} THEN NoTyping
               ELSE [@ EXCEPT !.members = @ \ {h.uid}]]
       ELSE redisTyping
  /\ handlers' = Goto(h, IF publish /\ Max(0, h.cnt - 1) = 0 THEN "l_empty" ELSE "l_done")
  /\ UNCHANGED <<conns, out, nextHid, budget, users, nextUserId, activeConnections, userSockets, localRoomCache, roomCreationMutex, memberships, nextDocId, messages, redisUp, redisPubClient, isAlive, heartbeat, shutdown, now, limiter, joinMark, typingMark, sent, received, sanIn, sanOut, sanAgain, breaker, cache, roomSubscriptions, calls>>

(* RoomService.handleEmptyRoom *)
handleEmptyRoom(h) ==
  /\ h.pc = "l_empty"
  /\ rooms' = [rooms EXCEPT ![h.leaving].isActive = FALSE,
                            ![h.leaving].currentUsers = 0]
  /\ localRoomCache' = localRoomCache \ {h.leaving}
  /\ redisMembers' = [redisMembers EXCEPT ![h.leaving] = {}]
  /\ redisTyping' = [redisTyping EXCEPT ![h.leaving] = NoTyping]
  /\ handlers' = Goto(h, "l_done")
  /\ UNCHANGED <<conns, out, nextHid, budget, users, nextUserId, activeConnections, userSockets, roomCreationMutex, memberships, nextDocId, messages, redisUp, redisPubClient, isAlive, heartbeat, shutdown, now, limiter, joinMark, typingMark, sent, received, sanIn, sanOut, sanAgain, breaker, cache, roomSubscriptions, calls>>

(* The rest of RoomHandler.leaveRoom: the leave notification, the          *)
(* user_left broadcast, currentRoom = null; then the caller goes on.       *)
leaveRoom_done(h) ==
  /\ h.pc = "l_done"
  /\ LET c == h.conn
         o1 == RoomHandler_broadcastToRoom(out, conns, h.leaving,
                 [Frame("user_left") EXCEPT !.room = h.leaving, !.from = c,
                                            !.memberCount = getRoomMembers(h.leaving)], 0)
         cs == [conns EXCEPT ![c].currentRoom = NoRoom]
     IN /\ conns' = cs
        /\ out' = IF h.ret = "leave_room"
                  THEN sendMessage(o1, cs, c, [Frame("room_left") EXCEPT !.room = h.leaving])
                  ELSE o1
  /\ messages' = Append(messages, notification(h.leaving))
  /\ roomSubscriptions' = IF getRoomMembers(h.leaving) = 0
                          THEN unsubscribeFromRoom(roomSubscriptions, h.leaving)
                          ELSE roomSubscriptions
  /\ handlers' = CASE h.ret = "leave_room" -> Done(h)
                   [] h.ret = "join_room" -> Goto(h, "j_find")
                   [] OTHER -> Goto(h, "d_user")
  /\ UNCHANGED <<nextHid, budget, users, nextUserId, activeConnections, userSockets, rooms, localRoomCache, roomCreationMutex, memberships, nextDocId, redisUp, redisPubClient, isAlive, heartbeat, shutdown, redisMembers, redisTyping, now, limiter, joinMark, typingMark, sent, received, sanIn, sanOut, sanAgain, breaker, cache, calls>>

(* --------------- ConnectionHandler.handleDisconnection ----------------- *)
(* ws.on('close'): the socket is closed; an authenticated connection       *)
(* leaves its room and is removed from the user maps.                      *)
handleDisconnection(c) ==
  /\ conns[c].state \in {"open", "closing"}
  /\ Cardinality(handlers) < MaxInFlight
  /\ conns' = [conns EXCEPT ![c].state = "closed"]
  /\ nextHid' = nextHid + 1
  /\ handlers' =
       IF ~conns[c].authenticated THEN handlers
       ELSE IF conns[c].currentRoom # NoRoom
       THEN handlers \cup {[Handler(nextHid, c, "close", "l_mem") EXCEPT
                              !.leaving = conns[c].currentRoom, !.ret = "close"]}
       ELSE handlers \cup {[Handler(nextHid, c, "close", "d_user") EXCEPT !.ret = "close"]}
  /\ UNCHANGED <<out, budget, users, nextUserId, activeConnections, userSockets, rooms, localRoomCache, roomCreationMutex, memberships, nextDocId, messages, redisUp, redisPubClient, isAlive, heartbeat, shutdown, redisMembers, redisTyping, now, limiter, joinMark, typingMark, sent, received, sanIn, sanOut, sanAgain, breaker, cache, roomSubscriptions, calls>>

(* UserService.markUserOffline: setUserOnline(userId, false), then         *)
(* RoomMembership.leaveRoom for every active membership of the user.       *)
markUserOffline(ms, userId) ==
  {IF m.userId = userId /\ m.isActive
   THEN [m EXCEPT !.isActive = FALSE, !.leftAt = "date"] ELSE m : m \in ms}

(* UserService.disconnectUser(socketId) up to the end of markUserOffline:  *)
(* the socket is taken out of the user's set; if the set is now empty the  *)
(* user is marked offline and its memberships left, and the deletion of    *)
(* the set and of the connection entry follow that await; otherwise the    *)
(* connection entry is deleted at once.                                    *)
disconnectUser(h) ==
  /\ h.pc = "d_user"
  /\ LET c == h.conn
         userId == activeConnections[c]
         left == IF userId \in DOMAIN userSockets THEN userSockets[userId] \ {c} ELSE {}
         last == userId \in DOMAIN userSockets /\ left = {}
     IN IF userId = NoUser
        THEN /\ handlers' = Done(h)
             /\ UNCHANGED <<users, memberships, userSockets, activeConnections>>
        ELSE IF last
        THEN /\ users' = setUserOffline(users, userId)
             /\ memberships' = markUserOffline(memberships, userId)
             /\ userSockets' = [userSockets EXCEPT ![userId] = left]
             /\ handlers' = Replace(h, [h EXCEPT !.pc = "d_delete", !.uid = userId])
             /\ UNCHANGED activeConnections
        ELSE /\ userSockets' =
                  IF userId \notin DOMAIN userSockets THEN userSockets
                  ELSE [userSockets EXCEPT ![userId] = left]
             /\ activeConnections' = [activeConnections EXCEPT ![c] = NoUser]
             /\ handlers' = Done(h)
             /\ UNCHANGED <<users, memberships>>
  /\ UNCHANGED <<conns, out, nextHid, budget, nextUserId, rooms, localRoomCache, roomCreationMutex, nextDocId, messages, redisUp, redisPubClient, isAlive, heartbeat, shutdown, redisMembers, redisTyping, now, limiter, joinMark, typingMark, sent, received, sanIn, sanOut, sanAgain, breaker, cache, roomSubscriptions, calls>>

(* disconnectUser after `await this.markUserOffline(userId)`:              *)
(* this.userSockets.delete(userId); this.activeConnections.delete(socketId) *)
disconnectUser_delete(h) ==
  /\ h.pc = "d_delete"
  /\ LET c == h.conn
         userId == h.uid
     IN /\ userSockets' = [u \in DOMAIN userSockets \ {userId} |-> userSockets[u]]
        /\ activeConnections' = [activeConnections EXCEPT ![c] = NoUser]
  /\ handlers' = Done(h)
  /\ UNCHANGED <<conns, out, nextHid, budget, users, nextUserId, rooms, localRoomCache, roomCreationMutex, memberships, nextDocId, messages, redisUp, redisPubClient, isAlive, heartbeat, shutdown, redisMembers, redisTyping, now, limiter, joinMark, typingMark, sent, received, sanIn, sanOut, sanAgain, breaker, cache, roomSubscriptions, calls>>

(* ------------------- MessageHandler.handleSendMessage ------------------ *)
(* The open connections of the other users that hold an active membership  *)
(* of roomId and have no operation of their own in flight.                 *)
OtherActiveMembers(c, roomId) ==
  {p \in Conns :
     /\ p # c
     /\ ~\E g \in handlers : g.conn = p
     /\ conns[p].state = "open"
     /\ conns[p].authenticated
     /\ conns[p].userId # conns[c].userId
     /\ \E m \in memberships :
          m.roomId = roomId /\ m.userId = conns[p].userId /\ m.isActive}

(* Redis SREM; a set that becomes empty is deleted with its TTL. *)
removeFromSet(ty, roomId, userId) ==
  IF roomId \notin DOMAIN ty THEN ty
  ELSE [ty EXCEPT ![roomId] = IF @.members \ {userId} = {} THEN NoTyping
                               ELSE [@ EXCEPT !.members = @ \ {userId}]]

(* MessageService.sendMessage (validate, sanitize, Message.createMessage,  *)
(* publish; a throw is caught: "Failed to send message"),                  *)
(* this.broadcastToRoom(connectionInfo.currentRoom, message) and the       *)
(* typing removal of RoomService.handleTypingIndicator(.., false).         *)
sendMessage_deliver(h) ==
  /\ h.pc = "m_send"
  /\ LET c == h.conn
         room == conns[c].currentRoom
         sanitized == sanitizeContent(h.content)
         frame == [Frame("message") EXCEPT !.room = h.room, !.from = c, !.id = h.hid]
     IN IF ~validateMessage(h.content)
        THEN /\ out' = sendError(out, conns, c, "Message cannot be empty")
             /\ UNCHANGED <<messages, redisTyping, sent>>
        ELSE IF ~sanitized.ok
        THEN /\ out' = sendError(out, conns, c, "Failed to send message")
             /\ UNCHANGED <<messages, redisTyping, sent>>
        ELSE IF ~publish
        THEN /\ messages' = Append(messages,
                              [id |-> h.hid, frame |-> h.hid, roomId |-> h.room,
                               userId |-> conns[c].userId, type |-> "message"])
             /\ out' = sendError(out, conns, c, "Failed to send message")
             /\ UNCHANGED <<redisTyping, sent>>
        ELSE /\ messages' = Append(messages,
                              [id |-> h.hid, frame |-> h.hid, roomId |-> h.room,
                               userId |-> conns[c].userId, type |-> "message"])
             /\ out' = MessageHandler_broadcastToRoom(out, conns, room, frame, 0)
             /\ redisTyping' = IF redisUp
                               THEN removeFromSet(redisTyping, room, conns[c].userId)
                               ELSE redisTyping
             /\ sent' = sent \cup {[id |-> h.hid, conn |-> c, room |-> h.room,
                                    expected |-> OtherActiveMembers(c, h.room)]}
  /\ handlers' = Done(h)
  /\ UNCHANGED <<conns, nextHid, budget, users, nextUserId, activeConnections, userSockets, rooms, localRoomCache, roomCreationMutex, memberships, nextDocId, redisUp, redisPubClient, isAlive, heartbeat, shutdown, redisMembers, now, limiter, joinMark, typingMark, received, sanIn, sanOut, sanAgain, breaker, cache, roomSubscriptions, calls>>

(* ------- MessageHandler.handleTypingIndicator -> RoomService ----------- *)
(* routeMessage passes the frame itself as isTyping, so the user is always *)
(* added: SADD and EXPIRE of room:<id>:typing, SMEMBERS, the usernames,    *)
(* and typing_update to the room without the sender's socket.              *)
typingUsernames(us, ids) == {u.username : u \in {x \in us : x.userId \in ids}}

handleTypingIndicator_update(h) ==
  /\ h.pc = "t_upd"
  /\ LET c == h.conn
         ty == IF redisUp
               THEN [redisTyping EXCEPT ![h.room] =
                       [members |-> @.members \cup {conns[c].userId},
                        expire |-> now + TYPING_INDICATOR_TTL * TicksPerSecond]]
               ELSE redisTyping
         typingUsers == IF redisUp /\ publish THEN ty[h.room].members ELSE {}
         frame == [Frame("typing_update") EXCEPT
                     !.room = h.room, !.from = c,
                     !.users = typingUsernames(users, typingUsers)]
     IN /\ redisTyping' = ty
        /\ out' = MessageHandler_broadcastToRoom(out, conns, conns[c].currentRoom,
                                                 frame, c)
  /\ handlers' = Done(h)
  /\ UNCHANGED <<conns, nextHid, budget, users, nextUserId, activeConnections, userSockets, rooms, localRoomCache, roomCreationMutex, memberships, nextDocId, messages, redisUp, redisPubClient, isAlive, heartbeat, shutdown, redisMembers, now, limiter, joinMark, typingMark, sent, received, sanIn, sanOut, sanAgain, breaker, cache, roomSubscriptions, calls>>

(* ----------------- ConnectionHandler.setupRedisSubscriptions ----------- *)
(* A payload published on global:broadcast is relayed by broadcastToAll.   *)
GlobalPayloads == {"system", "notification"}

globalBroadcast(t) ==
  /\ redisUp
  /\ budget > 0
  /\ budget' = budget - 1
  /\ out' = broadcastToAll(out, conns, Frame(t))
  /\ UNCHANGED <<conns, handlers, nextHid, users, nextUserId, activeConnections, userSockets, rooms, localRoomCache, roomCreationMutex, memberships, nextDocId, messages, redisUp, redisPubClient, isAlive, heartbeat, shutdown, redisMembers, redisTyping, now, limiter, joinMark, typingMark, sent, received, sanIn, sanOut, sanAgain, breaker, cache, roomSubscriptions, calls>>

(* -------------------------------- time --------------------------------- *)
(* The instants after `now` at which a Redis key or a limiter record ends. *)
Deadlines ==
  {redisTyping[r].expire : r \in RoomNames} \cup
  {limiter[t].expire : t \in DOMAIN limiter}

(* Time passes by d ticks; Redis drops the typing sets whose TTL is over.  *)
Tick(d, max) ==
  /\ d > 0
  /\ now + d <= max
  /\ now' = now + d
  /\ redisTyping' = [r \in RoomNames |->
                       IF redisTyping[r].expire >= 0 /\ redisTyping[r].expire <= now + d
                       THEN NoTyping ELSE redisTyping[r]]
  /\ UNCHANGED <<conns, out, handlers, nextHid, budget, users, nextUserId, activeConnections, userSockets, rooms, localRoomCache, roomCreationMutex, memberships, nextDocId, messages, redisUp, redisPubClient, isAlive, heartbeat, shutdown, redisMembers, limiter, joinMark, typingMark, sent, received, sanIn, sanOut, sanAgain, breaker, cache, roomSubscriptions, calls>>

(* Time passes until the next such instant. *)
TickToDeadline ==
  \E e \in Deadlines :
    /\ e > now
    /\ \A f \in Deadlines : f > now => e <= f
    /\ Tick(e - now, MaxTime)

(* --------------------------- specification ----------------------------- *)
Next ==
  \/ \E c \in Conns : handleConnection(c)
  \/ \E c \in Conns : \E m \in ClientFrames : Receive(c, m)
  \/ \E c \in Conns : handleDisconnection(c)
  \/ \E h \in handlers : authenticateUser_find(h)
  \/ \E h \in handlers : authenticateUser_save(h)
  \/ \E h \in handlers : createRoom_lock(h)
  \/ \E h \in handlers : createRoom_save(h)
  \/ \E h \in handlers : handleJoinRoom_find(h)
  \/ \E h \in handlers : joinRoom_find(h)
  \/ \E h \in handlers : joinRoom_membership(h)
  \/ \E h \in handlers : joinRoom_count(h)
  \/ \E h \in handlers : joinRoom_increment(h)
  \/ \E h \in handlers : joinRoom_reply(h)
  \/ \E h \in handlers : leaveRoom_membership(h)
  \/ \E h \in handlers : leaveRoom_count(h)
  \/ \E h \in handlers : leaveRoom_decrement(h)
  \/ \E h \in handlers : handleEmptyRoom(h)
  \/ \E h \in handlers : leaveRoom_done(h)
  \/ \E h \in handlers : disconnectUser(h)
  \/ \E h \in handlers : disconnectUser_delete(h)
  \/ \E h \in handlers : sendMessage_deliver(h)
  \/ \E h \in handlers : handleTypingIndicator_update(h)
  \/ \E t \in GlobalPayloads : globalBroadcast(t)
  \/ TickToDeadline

Spec == Init /\ [][Next]_vars

(* ------------------- a running server with one room -------------------- *)
(* The state after two connections, auth as alice on the first and as bob  *)
(* on the second, and create_room lobby on the first, all handlers done.   *)
SetupDone ==
  /\ isAlive = [c \in Conns |-> c <= 2]
  /\ heartbeat = NoHeartbeat
  /\ shutdown = NotShuttingDown
  /\ breaker = NewBreaker
  /\ cache = NewCache
  /\ roomSubscriptions = IF redisUp THEN {"lobby"} ELSE {}
  /\ calls = <<>>
  /\ conns = [c \in Conns |->
                IF c = 1 THEN [state |-> "open", authenticated |-> TRUE, userId |-> 1,
                               username |-> "alice", currentRoom |-> "lobby"]
                ELSE IF c = 2 THEN [state |-> "open", authenticated |-> TRUE, userId |-> 2,
                                    username |-> "bob", currentRoom |-> NoRoom]
                ELSE [state |-> "none", authenticated |-> FALSE, userId |-> NoUser,
                      username |-> "", currentRoom |-> NoRoom]]
  /\ out = [c \in Conns |->
              IF c = 1 THEN << Frame("system"), Frame("auth_success"),
                               [Frame("room_joined") EXCEPT !.room = "lobby", !.memberCount = 1],
                               [Frame("room_created") EXCEPT !.room = "lobby"] >>
              ELSE IF c = 2 THEN << Frame("system"), Frame("auth_success") >>
              ELSE <<>>]
  /\ handlers = {}
  /\ nextHid = 4
  /\ users = {[userId |-> 1, username |-> "alice", isOnline |-> TRUE],
              [userId |-> 2, username |-> "bob", isOnline |-> TRUE]}
  /\ nextUserId = 3
  /\ activeConnections = [c \in Conns |-> IF c <= 2 THEN c ELSE NoUser]
  /\ userSockets = [u \in {1, 2} |-> {u}]
  /\ rooms = [r \in RoomNames |->
                IF r = "lobby" THEN [exists |-> TRUE, isActive |-> TRUE, currentUsers |-> 1]
                ELSE [exists |-> FALSE, isActive |-> FALSE, currentUsers |-> 0]]
  /\ localRoomCache = {"lobby"}
  /\ roomCreationMutex = 0
  /\ memberships = {[id |-> 1, roomId |-> "lobby", userId |-> 1, username |-> "alice",
                     isActive |-> TRUE, joinCount |-> 1, leftAt |-> "null"]}
  /\ nextDocId = 2
  /\ messages = << notification("lobby") >>
  /\ redisMembers = [r \in RoomNames |-> IF redisUp /\ r = "lobby" THEN {1} ELSE {}]
  /\ redisTyping = [r \in RoomNames |-> NoTyping]
  /\ now = 0
  /\ limiter = [t \in {"send_message", "create_room"} |->
                  IF t = "create_room"
                  THEN [consumed |-> 1,
                        expire |-> RATE_LIMIT_ROOMS_DURATION * TicksPerSecond]
                  ELSE NoLimit]
  /\ joinMark = [c \in Conns |->
                   IF c = 1 THEN [t |-> 0, room |-> "lobby", at |-> <<>>] ELSE NoMark]
  /\ typingMark = [c \in Conns |-> NoMark]
  /\ sent = {}
  /\ received = << [frame |-> 1, conn |-> 1, type |-> "auth", t |-> 0,
                    authenticated |-> FALSE, fresh |-> TRUE, allowed |-> TRUE,
                    reply |-> 0, dispatched |-> TRUE],
                   [frame |-> 2, conn |-> 2, type |-> "auth", t |-> 0,
                    authenticated |-> FALSE, fresh |-> TRUE, allowed |-> TRUE,
                    reply |-> 0, dispatched |-> TRUE],
                   [frame |-> 3, conn |-> 1, type |-> "create_room", t |-> 0,
                    authenticated |-> TRUE, fresh |-> TRUE, allowed |-> TRUE,
                    reply |-> 0, dispatched |-> TRUE] >>

(* ---------------- rooms and messages on the running server ------------- *)
ChatFrames ==
  {[type |-> "join_room", name |-> "lobby", content |-> <<>>],
   [type |-> "leave_room", name |-> "", content |-> <<>>],
   [type |-> "send_message", name |-> "", content |-> <<"h", "i">>],
   [type |-> "typing_start", name |-> "", content |-> <<>>]}

InitChat ==
  /\ redisUp \in BOOLEAN
  /\ redisPubClient = PubClientFor(redisUp)
  /\ budget = MaxChatFrames
  /\ SetupDone
  /\ InitSan

NextChat ==
  \/ \E c \in Conns : \E m \in ChatFrames : Receive(c, m)
  \/ \E h \in handlers : handleJoinRoom_find(h)
  \/ \E h \in handlers : joinRoom_find(h)
  \/ \E h \in handlers : joinRoom_membership(h)
  \/ \E h \in handlers : joinRoom_count(h)
  \/ \E h \in handlers : joinRoom_increment(h)
  \/ \E h \in handlers : joinRoom_reply(h)
  \/ \E h \in handlers : leaveRoom_membership(h)
  \/ \E h \in handlers : leaveRoom_count(h)
  \/ \E h \in handlers : leaveRoom_decrement(h)
  \/ \E h \in handlers : handleEmptyRoom(h)
  \/ \E h \in handlers : leaveRoom_done(h)
  \/ \E h \in handlers : sendMessage_deliver(h)
  \/ \E h \in handlers : handleTypingIndicator_update(h)
  \/ TickToDeadline

SpecChat == InitChat /\ [][NextChat]_vars

(* --------------------- joins and leaves of one room -------------------- *)
MemberFrames ==
  {[type |-> "join_room", name |-> "lobby", content |-> <<>>],
   [type |-> "leave_room", name |-> "", content |-> <<>>]}

InitMembership ==
  /\ redisUp = TRUE
  /\ redisPubClient = PubClientFor(redisUp)
  /\ budget = MaxMemberFrames
  /\ SetupDone
  /\ InitSan

NextMembership ==
  \/ \E c \in Conns : \E m \in MemberFrames : Receive(c, m)
  \/ \E h \in handlers : handleJoinRoom_find(h)
  \/ \E h \in handlers : joinRoom_find(h)
  \/ \E h \in handlers : joinRoom_membership(h)
  \/ \E h \in handlers : joinRoom_count(h)
  \/ \E h \in handlers : joinRoom_increment(h)
  \/ \E h \in handlers : joinRoom_reply(h)
  \/ \E h \in handlers : leaveRoom_membership(h)
  \/ \E h \in handlers : leaveRoom_count(h)
  \/ \E h \in handlers : leaveRoom_decrement(h)
  \/ \E h \in handlers : handleEmptyRoom(h)
  \/ \E h \in handlers : leaveRoom_done(h)

SpecMembership == InitMembership /\ [][NextMembership]_vars

(* ------------------ a burst of send_message frames --------------------- *)
BurstFrame == [type |-> "send_message", name |-> "", content |-> <<"h", "i">>]

InitRate ==
  /\ redisUp = TRUE
  /\ redisPubClient = PubClientFor(redisUp)
  /\ budget = MaxRateFrames
  /\ SetupDone
  /\ InitSan

(* The store answers the inserts of the one sending connection in the      *)
(* order they were issued.                                                 *)
Oldest(h) == \A g \in handlers : h.hid <= g.hid

NextRate ==
  \/ Receive(1, BurstFrame)
  \/ \E h \in handlers : Oldest(h) /\ sendMessage_deliver(h)
  \/ Tick(1, MaxRateTime)

SpecRate == InitRate /\ [][NextRate]_vars

(* ------------------------ the content validator ------------------------ *)
SanFragments ==
  { <<"a">>, <<" ">>, <<"&">>, <<"\"">>, <<"=">>, <<"CTRL">>, <<"d", "r">>,
    <<"o", "p">>, <<"j", "a", "v", "a">>, <<"s", "c", "r", "i", "p", "t", ":">> }

(* The concatenations of at most n fragments. *)
RECURSIVE SanInputs(_)
SanInputs(n) ==
  IF n = 0 THEN { <<>> }
  ELSE SanInputs(n - 1) \cup {f \o x : f \in SanFragments, x \in SanInputs(n - 1)}

Ran(r) == [done |-> TRUE, ok |-> r.ok, value |-> r.value]

InitSanitize ==
  /\ redisUp = FALSE
  /\ redisPubClient = PubClientFor(redisUp)
  /\ budget = 0
  /\ InitServer
  /\ sanIn \in SanInputs(MaxSanLen)
  /\ sanOut = NotRun
  /\ sanAgain = NotRun

(* sanitizeContent(x) *)
Sanitize ==
  /\ ~sanOut.done
  /\ sanOut' = Ran(sanitizeContent(sanIn))
  /\ UNCHANGED <<conns, out, handlers, nextHid, budget, users, nextUserId, activeConnections, userSockets, rooms, localRoomCache, roomCreationMutex, memberships, nextDocId, messages, redisUp, redisPubClient, isAlive, heartbeat, shutdown, redisMembers, redisTyping, now, limiter, joinMark, typingMark, sent, received, sanIn, sanAgain, breaker, cache, roomSubscriptions, calls>>

(* sanitizeContent of the string the first call returned *)
SanitizeAgain ==
  /\ sanOut.done
  /\ sanOut.ok
  /\ ~sanAgain.done
  /\ sanAgain' = Ran(sanitizeContent(sanOut.value))
  /\ UNCHANGED <<conns, out, handlers, nextHid, budget, users, nextUserId, activeConnections, userSockets, rooms, localRoomCache, roomCreationMutex, memberships, nextDocId, messages, redisUp, redisPubClient, isAlive, heartbeat, shutdown, redisMembers, redisTyping, now, limiter, joinMark, typingMark, sent, received, sanIn, sanOut, breaker, cache, roomSubscriptions, calls>>

NextSanitize == Sanitize \/ SanitizeAgain

SpecSanitize == InitSanitize /\ [][NextSanitize]_vars

(* ------------------ senders of one room, interleaved ------------------- *)
(* The state after SetupDone and join_room lobby on the second connection, *)
(* all handlers done: alice and bob are the two members of lobby.          *)
BothJoined ==
  /\ isAlive = [c \in Conns |-> c <= 2]
  /\ heartbeat = NoHeartbeat
  /\ shutdown = NotShuttingDown
  /\ breaker = NewBreaker
  /\ cache = NewCache
  /\ roomSubscriptions = IF redisUp THEN {"lobby"} ELSE {}
  /\ calls = <<>>
  /\ conns = [c \in Conns |->
                IF c <= 2
                THEN [state |-> "open", authenticated |-> TRUE, userId |-> c,
                      username |-> IF c = 1 THEN "alice" ELSE "bob",
                      currentRoom |-> "lobby"]
                ELSE [state |-> "none", authenticated |-> FALSE, userId |-> NoUser,
                      username |-> "", currentRoom |-> NoRoom]]
  /\ out = [c \in Conns |->
              IF c = 1 THEN << Frame("system"), Frame("auth_success"),
                               [Frame("room_joined") EXCEPT !.room = "lobby", !.memberCount = 1],
                               [Frame("room_created") EXCEPT !.room = "lobby"] >>
              ELSE IF c = 2 THEN << Frame("system"), Frame("auth_success"),
                               [Frame("room_joined") EXCEPT !.room = "lobby", !.memberCount = 2],
                               [Frame("message_history") EXCEPT !.room = "lobby"] >>
              ELSE <<>>]
  /\ handlers = {}
  /\ nextHid = 5
  /\ users = {[userId |-> 1, username |-> "alice", isOnline |-> TRUE],
              [userId |-> 2, username |-> "bob", isOnline |-> TRUE]}
  /\ nextUserId = 3
  /\ activeConnections = [c \in Conns |-> IF c <= 2 THEN c ELSE NoUser]
  /\ userSockets = [u \in {1, 2} |-> {u}]
  /\ rooms = [r \in RoomNames |->
                IF r = "lobby" THEN [exists |-> TRUE, isActive |-> TRUE, currentUsers |-> 2]
                ELSE [exists |-> FALSE, isActive |-> FALSE, currentUsers |-> 0]]
  /\ localRoomCache = {"lobby"}
  /\ roomCreationMutex = 0
  /\ memberships = {[id |-> u, roomId |-> "lobby", userId |-> u,
                      username |-> IF u = 1 THEN "alice" ELSE "bob",
                      isActive |-> TRUE, joinCount |-> 1, leftAt |-> "null"] : u \in {1, 2}}
  /\ nextDocId = 3
  /\ messages = << notification("lobby"), notification("lobby") >>
  /\ redisMembers = [r \in RoomNames |-> IF redisUp /\ r = "lobby" THEN {1, 2} ELSE {}]
  /\ redisTyping = [r \in RoomNames |-> NoTyping]
  /\ now = 0
  /\ limiter = [t \in {"send_message", "create_room"} |->
                  IF t = "create_room"
                  THEN [consumed |-> 1,
                        expire |-> RATE_LIMIT_ROOMS_DURATION * TicksPerSecond]
                  ELSE NoLimit]
  /\ joinMark = [c \in Conns |->
                   IF c = 1 THEN [t |-> 0, room |-> "lobby", at |-> <<>>]
                   ELSE IF c = 2 THEN [t |-> 0, room |-> "lobby", at |-> [p \in {1} |-> 4]]
                   ELSE NoMark]
  /\ typingMark = [c \in Conns |-> NoMark]
  /\ sent = {}
  /\ received =
       [k \in 1..4 |->
          [frame |-> k, conn |-> IF k \in {1, 3} THEN 1 ELSE 2,
           type |-> IF k <= 2 THEN "auth" ELSE IF k = 3 THEN "create_room" ELSE "join_room",
           t |-> 0, authenticated |-> k > 2, fresh |-> TRUE, allowed |-> TRUE,
           reply |-> 0, dispatched |-> TRUE]]

OrderFrames ==
  {[type |-> "send_message", name |-> "", content |-> <<"h", "i">>],
   [type |-> "leave_room", name |-> "", content |-> <<>>]}

InitOrder ==
  /\ redisUp = TRUE
  /\ redisPubClient = PubClientFor(redisUp)
  /\ budget = MaxOrderFrames
  /\ BothJoined
  /\ InitSan

NextOrder ==
  \/ \E c \in Conns : \E m \in OrderFrames : Receive(c, m)
  \/ \E h \in handlers : leaveRoom_membership(h)
  \/ \E h \in handlers : leaveRoom_count(h)
  \/ \E h \in handlers : leaveRoom_decrement(h)
  \/ \E h \in handlers : handleEmptyRoom(h)
  \/ \E h \in handlers : leaveRoom_done(h)
  \/ \E h \in handlers : sendMessage_deliver(h)

SpecOrder == InitOrder /\ [][NextOrder]_vars

(* ------------------ a server whose bus is unavailable ------------------ *)
(* RedisHelper is on its fallbacks (no client, or the circuit breaker is   *)
(* Open); the publisher is absent, or exists with its server reachable     *)
(* again, or exists with its server unreachable.                           *)
InitBus ==
  /\ InitServer
  /\ InitSan
  /\ redisUp = FALSE
  /\ redisPubClient \in {"null", "ready", "down"}
  /\ budget = MaxBusFrames

NextBus ==
  \/ \E c \in Conns : handleConnection(c)
  \/ \E c \in Conns : \E m \in ClientFrames : Receive(c, m)
  \/ \E c \in Conns : handleDisconnection(c)
  \/ \E h \in handlers : authenticateUser_find(h)
  \/ \E h \in handlers : authenticateUser_save(h)
  \/ \E h \in handlers : createRoom_lock(h)
  \/ \E h \in handlers : createRoom_save(h)
  \/ \E h \in handlers : handleJoinRoom_find(h)
  \/ \E h \in handlers : joinRoom_find(h)
  \/ \E h \in handlers : joinRoom_membership(h)
  \/ \E h \in handlers : joinRoom_count(h)
  \/ \E h \in handlers : joinRoom_increment(h)
  \/ \E h \in handlers : joinRoom_reply(h)
  \/ \E h \in handlers : leaveRoom_membership(h)
  \/ \E h \in handlers : leaveRoom_count(h)
  \/ \E h \in handlers : leaveRoom_decrement(h)
  \/ \E h \in handlers : handleEmptyRoom(h)
  \/ \E h \in handlers : leaveRoom_done(h)
  \/ \E h \in handlers : disconnectUser(h)
  \/ \E h \in handlers : disconnectUser_delete(h)
  \/ \E h \in handlers : sendMessage_deliver(h)
  \/ \E h \in handlers : handleTypingIndicator_update(h)
  \/ TickToDeadline

SpecBus == InitBus /\ [][NextBus]_vars

(* ============================== properties ============================= *)
(* The positions in the log of socket p that hold the message frame of the *)
(* send_message frame numbered id.                                         *)
MessageFrames(p, id) ==
  {i \in 1..Len(out[p]) : out[p][i].type = "message" /\ out[p][i].id = id}

Persisted(id) == \E k \in 1..Len(messages) : messages[k].frame = id

Broadcast(id) == \E p \in Conns : MessageFrames(p, id) # {}

InFlight(c) == \E h \in handlers : h.conn = c

(* C1: on every socket, a frame of a type other than error, system,        *)
(* auth_success or auth_error is preceded by the auth_success frame of     *)
(* that connection, whatever wrote it: a reply, a room broadcast or the    *)
(* relay of global:broadcast.                                              *)
C1_AuthGate ==
  \A c \in Conns : \A i \in 1..Len(out[c]) :
    out[c][i].type \notin {"error", "system", "auth_success", "auth_error"}
      => \E j \in 1..(i - 1) : out[c][j].type = "auth_success"

(* C2: every frame whose type is not auth, received while the connection   *)
(* is not authenticated and not rejected by the rate limiter, is answered  *)
(* with an error frame of code UNAUTHORIZED and starts no handler.         *)
C2_UnauthorizedReply ==
  \A i \in 1..Len(received) :
    LET e == received[i]
    IN (e.type # "auth" /\ ~e.authenticated /\ e.allowed)
         => /\ ~e.dispatched
            /\ e.reply > 0
            /\ out[e.conn][e.reply].type = "error"
            /\ out[e.conn][e.reply].code = "UNAUTHORIZED"

(* C3: when no handler is in flight, the currentUsers counter of every     *)
(* room equals the number of its memberships with isActive = true.         *)
C3_RoomCount ==
  handlers = {} =>
    \A r \in RoomNames :
      rooms[r].exists =>
        rooms[r].currentUsers = Cardinality(getActiveRoomMembers(memberships, r))

(* C4: in every state, at most one membership document with isActive =     *)
(* true exists for a (roomId, userId) pair, also while two joins of the    *)
(* pair are interleaved.                                                   *)
C4_SingleActiveMembership ==
  \A m1 \in memberships : \A m2 \in memberships :
    (m1.roomId = m2.roomId /\ m1.userId = m2.userId /\ m1.isActive /\ m2.isActive)
      => m1 = m2

(* Two joins of one pair are in flight, both have found no document, and   *)
(* the first has inserted its document while the second is about to.       *)
C4_InterleavedJoins ==
  \E h1 \in handlers : \E h2 \in handlers :
    /\ h1.hid # h2.hid
    /\ h1.room = h2.room /\ h1.uid = h2.uid /\ h1.uid # NoUser
    /\ h1.pc = "j_cnt" /\ h1.mem = 0
    /\ h2.pc = "j_mem" /\ h2.mem = 0
    /\ \E m \in memberships : m.roomId = h1.room /\ m.userId = h1.uid /\ m.isActive

(* C5: at every connection p that was in room R when connection C joined   *)
(* R, each message frame from C in R is preceded, after the join, by the   *)
(* user_joined frame of C.                                                 *)
C5_JoinedBeforeMessage ==
  \A c \in Conns : \A p \in DOMAIN joinMark[c].at :
    \A i \in (joinMark[c].at[p] + 1)..Len(out[p]) :
      (out[p][i].type = "message" /\ out[p][i].from = c
         /\ out[p][i].room = joinMark[c].room)
        => \E j \in (joinMark[c].at[p] + 1)..(i - 1) :
             /\ out[p][j].type = "user_joined"
             /\ out[p][j].from = c
             /\ out[p][j].room = joinMark[c].room

(* C6: a send_message that succeeded put exactly one message frame on the  *)
(* socket of every other active member of the room (counted here only for  *)
(* members with no operation of their own in progress at the fan-out).     *)
C6_FanOut ==
  \A s \in sent : \A p \in s.expected : Cardinality(MessageFrames(p, s.id)) = 1

(* C7: the connection that sent a successful send_message receives no      *)
(* message frame for it.                                                   *)
C7_SenderExcluded ==
  \A s \in sent : MessageFrames(s.conn, s.id) = {}

(* C8: TYPING_INDICATOR_TTL seconds after a typing_start of F that no      *)
(* frame of F followed, every peer that was and still is in the room has   *)
(* received a typing_update listing F and, after it, a typing_update that  *)
(* does not list F.                                                        *)
C8_TypingExpires ==
  \A f \in Conns :
    LET k == typingMark[f]
    IN (/\ k.t >= 0
        /\ now >= k.t + TYPING_INDICATOR_TTL * TicksPerSecond
        /\ conns[f].state = "open"
        /\ conns[f].currentRoom = k.room
        /\ ~InFlight(f))
         => \A p \in DOMAIN k.at :
              (conns[p].state = "open" /\ conns[p].currentRoom = k.room)
                => \E i \in (k.at[p] + 1)..Len(out[p]) :
                     \E j \in (i + 1)..Len(out[p]) :
                       /\ out[p][i].type = "typing_update"
                       /\ conns[f].username \in out[p][i].users
                       /\ out[p][j].type = "typing_update"
                       /\ conns[f].username \notin out[p][j].users

(* C9: for every string x that sanitizeContent accepts,                    *)
(* sanitizeContent(sanitizeContent(x)) succeeds and equals                 *)
(* sanitizeContent(x).                                                     *)
C9_SanitizeIdempotent ==
  (sanOut.done /\ sanOut.ok /\ sanAgain.done)
    => (sanAgain.ok /\ sanAgain.value = sanOut.value)

(* The send_message frames of the one remote address, in arrival order. *)
SendLog == SelectSeq(received, LAMBDA e : e.type = "send_message")

WithinOneSecond(i, j) == SendLog[j].t - SendLog[i].t < TicksPerSecond

(* The frame was answered with error RATE_LIMIT carrying retryAfter >= 1,  *)
(* and was neither persisted nor broadcast.                                *)
Limited(e) ==
  /\ ~e.allowed
  /\ ~e.dispatched
  /\ e.reply > 0
  /\ out[e.conn][e.reply].type = "error"
  /\ out[e.conn][e.reply].code = "RATE_LIMIT"
  /\ out[e.conn][e.reply].retryAfter >= 1
  /\ ~Persisted(e.frame)
  /\ ~Broadcast(e.frame)

(* C10 (amended): of 11 send_message frames that arrive within 1 s, the    *)
(* first of them when the address has no live limiter record, the first 10 *)
(* are not rate-limited and the 11th is answered with error RATE_LIMIT     *)
(* carrying retryAfter >= 1 and is neither persisted nor broadcast.        *)
C10_FreshBurstLimited ==
  \A i \in 1..Len(SendLog) :
    (i + 10 <= Len(SendLog) /\ WithinOneSecond(i, i + 10) /\ SendLog[i].fresh)
      => /\ \A k \in i..(i + 9) : SendLog[k].allowed
         /\ Limited(SendLog[i + 10])

(* A burst that began on a fresh record had its 11th frame rejected. *)
C10_BurstRejected ==
  \E i \in 1..Len(SendLog) :
    /\ i + 10 <= Len(SendLog)
    /\ WithinOneSecond(i, i + 10)
    /\ SendLog[i].fresh
    /\ \A k \in i..(i + 9) : SendLog[k].allowed /\ Persisted(SendLog[k].frame)
    /\ Limited(SendLog[i + 10])

(* C10 (as stated): of any 11 send_message frames that arrive within 1 s,  *)
(* the 11th is answered with error RATE_LIMIT, and the first 10 are not    *)
(* rate-limited when they begin a burst.                                   *)
C10_AnyBurstLimited ==
  \A i \in 1..Len(SendLog) :
    (i + 10 <= Len(SendLog) /\ WithinOneSecond(i, i + 10))
      => /\ SendLog[i].fresh => \A k \in i..(i + 9) : SendLog[k].allowed
         /\ Limited(SendLog[i + 10])

(* C11: the error frame that answers a create_room whose name is that of   *)
(* an existing active room ("Room already exists", from the name cache or  *)
(* from Room.findByName) carries the code ROOM_EXISTS.                     *)
C11_RoomExistsReply ==
  \A c \in Conns : \A i \in 1..Len(out[c]) :
    (out[c][i].type = "error" /\ out[c][i].message = "Room already exists")
      => out[c][i].code = "ROOM_EXISTS"

(* Every member of room r has left it: r has no membership with isActive = *)
(* true, no connection has it as its current room, and no handler is in    *)
(* flight other than join_room requests that have not looked the name up.  *)
AllLeft(r) ==
  /\ rooms[r].exists
  /\ getActiveRoomMembers(memberships, r) = {}
  /\ \A c \in Conns : conns[c].currentRoom # r
  /\ \A h \in handlers : h.pc = "jr_find"

(* C12: once every member of a room has left it, the room is inactive, so  *)
(* that Room.findByName of a join_room issued afterwards finds nothing and *)
(* the join is answered with ROOM_NOT_FOUND.                               *)
C12_EmptyRoomInactive ==
  \A r \in RoomNames : AllLeft(r) => ~rooms[r].isActive /\ ~findByName(rooms, r)

(* C13: on the creator's socket the room_created frame of a room comes     *)
(* before every room_joined frame of that room, and is followed by a       *)
(* room_joined frame of it with memberCount 1.                             *)
C13_CreatedThenJoined ==
  \A c \in Conns : \A i \in 1..Len(out[c]) :
    out[c][i].type = "room_created"
      => /\ \A j \in 1..(i - 1) :
              ~(out[c][j].type = "room_joined" /\ out[c][j].room = out[c][i].room)
         /\ \E j \in (i + 1)..Len(out[c]) :
              /\ out[c][j].type = "room_joined"
              /\ out[c][j].room = out[c][i].room
              /\ out[c][j].memberCount = 1

(* The user_joined frames naming joiner c written to socket p after        *)
(* position n of its log.                                                  *)
JoinedFrames(p, c, n) ==
  {i \in (n + 1)..Len(out[p]) : out[p][i].type = "user_joined" /\ out[p][i].from = c}

(* The join of connection c into its current room has completed. *)
JoinCompleted(c) ==
  /\ joinMark[c].t >= 0
  /\ conns[c].state = "open"
  /\ conns[c].currentRoom = joinMark[c].room
  /\ ~InFlight(c)

(* Connection p, in the room when c joined it, has stayed in it since. *)
StayedIn(p, c) ==
  /\ conns[p].state = "open"
  /\ conns[p].currentRoom = joinMark[c].room
  /\ ~InFlight(p)
  /\ \A i \in (joinMark[c].at[p] + 1)..Len(out[p]) :
       out[p][i].type \notin {"room_joined", "room_left"}

(* C14: after a completed join of c into R, every other connection that    *)
(* was and stayed in R has received exactly one user_joined frame naming   *)
(* c, with the memberCount of c's room_joined frame, and c has received    *)
(* no user_joined frame naming itself.                                     *)
C14_UserJoinedFanOut ==
  \A c \in Conns :
    JoinCompleted(c) =>
      /\ JoinedFrames(c, c, 0) = {}
      /\ \A p \in DOMAIN joinMark[c].at :
           StayedIn(p, c) =>
             /\ Cardinality(JoinedFrames(p, c, joinMark[c].at[p])) = 1
             /\ \A i \in JoinedFrames(p, c, joinMark[c].at[p]) :
                  \E j \in 1..Len(out[c]) :
                    /\ out[c][j].type = "room_joined"
                    /\ out[c][j].room = joinMark[c].room
                    /\ out[c][j].memberCount = out[p][i].memberCount

(* The connection that sent the client frame numbered id. *)
SenderOf(id) == {received[k].conn : k \in {j \in 1..Len(received) : received[j].frame = id}}

(* C15: with the bus unavailable no create_room and no send_message is     *)
(* answered with the error of a failed operation, and every persisted chat *)
(* message whose sender is still connected has been fanned out locally.    *)
C15_NoBusFailure ==
  /\ \A c \in Conns : \A i \in 1..Len(out[c]) :
       out[c][i].type = "error"
         => out[c][i].message \notin {"Failed to create room", "Failed to send message"}
  /\ \A k \in 1..Len(messages) :
       (messages[k].type = "message"
          /\ \A c \in SenderOf(messages[k].frame) : conns[c].state = "open")
         => Broadcast(messages[k].frame)

(* C16: in every state, two user records with isOnline = true that carry   *)
(* the same username are one record.                                       *)
C16_UniqueOnlineUsername ==
  \A u1 \in users : \A u2 \in users :
    (u1.username = u2.username /\ u1.isOnline /\ u2.isOnline)
      => u1.userId = u2.userId

(* C17: the handling of a client frame of a connection does not begin      *)
(* while the handling of an earlier frame of that connection is still in   *)
(* progress: no connection has two frame handlers in flight.               *)
C17_PerConnectionFifo ==
  \A h1 \in handlers : \A h2 \in handlers :
    (h1.conn = h2.conn /\ h1.kind # "close" /\ h2.kind # "close")
      => h1.hid = h2.hid

(* The positions of the log of socket p that hold a message frame of room r. *)
MessagesAt(p, r) ==
  {i \in 1..Len(out[p]) : out[p][i].type = "message" /\ out[p][i].room = r}

(* C18: two message frames of one room that two different sockets have     *)
(* both received are in the same relative order in the two logs.           *)
C18_SameRoomOrder ==
  \A p \in Conns : \A q \in Conns \ {p} : \A r \in RoomNames :
    \A i1 \in MessagesAt(p, r) : \A i2 \in MessagesAt(p, r) :
      \A j1 \in MessagesAt(q, r) : \A j2 \in MessagesAt(q, r) :
        (/\ out[p][i1].id = out[q][j1].id
         /\ out[p][i2].id = out[q][j2].id
         /\ i1 < i2)
          => j1 < j2

(* Two sockets both hold the message frames of two sends of different      *)
(* senders whose handlers overtook each other: the frame received later by *)
(* the server was fanned out first.                                        *)
C18_OvertakenSends ==
  \E p \in Conns : \E q \in Conns \ {p} : \E r \in RoomNames :
    \E i1 \in MessagesAt(p, r) : \E i2 \in MessagesAt(p, r) :
      \E j1 \in MessagesAt(q, r) : \E j2 \in MessagesAt(q, r) :
        /\ out[p][i1].id = out[q][j1].id
        /\ out[p][i2].id = out[q][j2].id
        /\ out[p][i1].from # out[p][i2].from
        /\ i1 < i2
        /\ out[p][i1].id > out[p][i2].id

(* ----------------------------- heartbeat ------------------------------- *)
(* wss.clients: the sockets the server has accepted and whose 'close' has  *)
(* not been emitted yet.                                                   *)
clients == {c \in Conns : conns[c].state \in {"open", "closing"}}

(* A round that terminates no socket. *)
isDead_never(alive) == FALSE

(* `ws.isAlive === false` of the heartbeat callback. *)
isDead(alive) == alive = FALSE

(* The instant of the next heartbeat round, in ticks. *)
nextRound == (heartbeat.round + 1) * HEARTBEAT_INTERVAL * TicksPerSecond

(* ws.on('pong'): the client answers an outstanding ping. *)
pong(c) ==
  /\ conns[c].state = "open"
  /\ c \in heartbeat.pinged
  /\ isAlive' = [isAlive EXCEPT ![c] = TRUE]
  /\ heartbeat' = [heartbeat EXCEPT !.pinged = @ \ {c}]
  /\ UNCHANGED <<conns, out, handlers, nextHid, budget, dbVars, userMapVars,
                 localRoomCache, roomCreationMutex, redisVars, now, limiter,
                 histVars, sanVars, shutdown, breaker, cache, roomSubscriptions, calls>>

(* The setInterval callback: every socket of wss.clients whose flag is     *)
(* false is terminated, every other one has its flag cleared and is pinged.*)
(* History: `missed` collects the open sockets that enter a round with the *)
(* ping of the round before unanswered, `terminated` the sockets the round *)
(* terminated.                                                             *)
heartbeatRound ==
  LET dead == {c \in clients : isDead(isAlive[c])}
      live == clients \ dead
  IN /\ now = nextRound
     /\ conns' = [c \in Conns |->
                    IF c \in dead THEN [conns[c] EXCEPT !.state = "closing"]
                    ELSE conns[c]]
     /\ isAlive' = [c \in Conns |-> IF c \in live THEN FALSE ELSE isAlive[c]]
     /\ heartbeat' =
          [round |-> heartbeat.round + 1,
           pinged |-> (heartbeat.pinged \ dead)
                        \cup {c \in live : conns[c].state = "open"},
           missed |-> heartbeat.missed
                        \cup {c \in heartbeat.pinged : conns[c].state = "open"},
           terminated |-> heartbeat.terminated \cup dead]
     /\ UNCHANGED <<out, handlers, nextHid, budget, dbVars, userMapVars,
                    localRoomCache, roomCreationMutex, redisVars, now, limiter,
                    histVars, sanVars, shutdown, breaker, cache, roomSubscriptions, calls>>

(* Time passes until the next round is due. *)
TickToHeartbeat ==
  /\ heartbeat.round < MaxRounds
  /\ now < nextRound
  /\ Tick(nextRound - now, MaxRounds * HEARTBEAT_INTERVAL * TicksPerSecond)

(* wss.on('connection'): a socket that arrives during shutdown is closed   *)
(* with 1001 and handleConnection is not called for it.                    *)
onConnection(c) ==
  /\ shutdown.pc \notin {"starting", "exit"}
  /\ IF shutdown.isShuttingDown
     THEN /\ conns[c].state = "none"
          /\ \A d \in Conns : d < c => conns[d].state # "none"
          /\ conns' = [conns EXCEPT ![c].state = "rejected"]
          /\ shutdown' = [shutdown EXCEPT !.late = @ \cup {c},
                                          !.sent1001 = @ \cup {c}]
          /\ UNCHANGED <<out, handlers, nextHid, budget, dbVars, userMapVars,
                         localRoomCache, roomCreationMutex, redisVars, now,
                         limiter, histVars, sanVars, isAlive, heartbeat, breaker, cache, roomSubscriptions, calls>>
     ELSE handleConnection(c)

(* A server with no socket yet and the heartbeat timer armed. *)
InitHeartbeat ==
  /\ redisUp = TRUE
  /\ redisPubClient = PubClientFor(redisUp)
  /\ budget = 0
  /\ InitServer
  /\ InitSan
  /\ sanAgain = NotRun

NextHeartbeat ==
  \/ \E c \in Conns : onConnection(c)
  \/ \E c \in Conns : handleDisconnection(c)
  \/ \E c \in Conns : pong(c)
  \/ heartbeatRound
  \/ TickToHeartbeat

SpecHeartbeat == InitHeartbeat /\ [][NextHeartbeat]_vars

(* C19: at every heartbeat round the open sockets whose ping of the round  *)
(* before is still unanswered are terminated, and the heartbeat terminates *)
(* no other socket: a socket that answered every ping in time stays open   *)
(* until it is closed for another reason.                                  *)
C19_HeartbeatTerminates ==
  /\ heartbeat.missed \subseteq heartbeat.terminated
  /\ heartbeat.terminated \subseteq heartbeat.missed
  /\ \A c \in heartbeat.terminated : conns[c].state \in {"closing", "closed"}
  /\ \A c \in Conns :
       conns[c].state = "open" => (c \in heartbeat.pinged <=> ~isAlive[c])

(* After three rounds one socket that never answered is terminated and one *)
(* that answered every ping is still open.                                 *)
C19_OneDeadOneAlive ==
  /\ heartbeat.round = MaxRounds
  /\ \E c \in heartbeat.terminated : conns[c].state = "closed"
  /\ \E c \in Conns :
       /\ conns[c].state = "open"
       /\ c \notin heartbeat.missed
       /\ c \in heartbeat.pinged

(* ------------------------- graceful shutdown --------------------------- *)
Cleanups == {"RoomService", "MessageService", "UserService"}

(* A guard that lets every signal start a sequence. *)
alreadyShuttingDown_never(s) == FALSE

(* `if (this.isShuttingDown) return;` *)
alreadyShuttingDown(s) == s.isShuttingDown

(* shutdown(signal) up to its first await: the flag is set, the HTTP        *)
(* server stops listening, every socket of wss.clients is sent close 1001  *)
(* and the 5 s timer is armed.  A signal that finds the flag set returns.  *)
shutdownOn(signal) ==
  /\ shutdown.pc \notin {"starting", "exit"}
  /\ shutdown.signals < MaxSignals
  /\ IF alreadyShuttingDown(shutdown)
     THEN /\ shutdown' = [shutdown EXCEPT !.signals = @ + 1]
          /\ UNCHANGED conns
     ELSE /\ shutdown' = [shutdown EXCEPT
                            !.isShuttingDown = TRUE,
                            !.cause = signal,
                            !.pc = "drain",
                            !.signals = @ + 1,
                            !.sequences = @ + 1,
                            !.startedAt = now,
                            !.drainedAt = -1,
                            !.cleanups = {},
                            !.fleet = @ \cup {c \in Conns : conns[c].state = "open"},
                            !.sent1001 = @ \cup clients]
          /\ conns' = [c \in Conns |->
                         IF c \in clients THEN [conns[c] EXCEPT !.state = "closing"]
                         ELSE conns[c]]
  /\ UNCHANGED <<out, handlers, nextHid, budget, dbVars, userMapVars,
                 localRoomCache, roomCreationMutex, redisVars, now, limiter,
                 histVars, sanVars, isAlive, heartbeat, breaker, cache, roomSubscriptions, calls>>

(* process.on('SIGTERM') and process.on('SIGINT') *)
shutdown_signal == \E signal \in {"SIGTERM", "SIGINT"} : shutdownOn(signal)

(* process.on('uncaughtException') and process.on('unhandledRejection'):   *)
(* the error is logged and the same shutdown closure is called.            *)
shutdown_error ==
  \E signal \in {"uncaughtException", "unhandledRejection"} : shutdownOn(signal)

(* Time passes until the 5 s timer of shutdown() is due. *)
TickToDrain ==
  /\ shutdown.pc = "drain"
  /\ now < shutdown.startedAt + SHUTDOWN_DRAIN * TicksPerSecond
  /\ Tick(shutdown.startedAt + SHUTDOWN_DRAIN * TicksPerSecond - now,
          shutdown.startedAt + SHUTDOWN_DRAIN * TicksPerSecond)

(* `await new Promise((resolve) => setTimeout(resolve, 5000))` resolves    *)
(* and gracefulShutdown() starts the three cleanups.                       *)
shutdown_drained ==
  /\ shutdown.pc = "drain"
  /\ now >= shutdown.startedAt + SHUTDOWN_DRAIN * TicksPerSecond
  /\ shutdown' = [shutdown EXCEPT !.pc = "cleanup", !.drainedAt = now]
  /\ UNCHANGED <<conns, out, handlers, nextHid, budget, dbVars, userMapVars,
                 localRoomCache, roomCreationMutex, redisVars, now, limiter,
                 histVars, sanVars, isAlive, heartbeat, breaker, cache, roomSubscriptions, calls>>

(* One of the cleanups of Promise.all runs to its end.  The rows they      *)
(* delete or deactivate are older than an hour (rooms) or thirty days, so  *)
(* none of this run's rows is touched; RoomService.cleanup ends with       *)
(* initialize(), which puts every active room into localRoomCache.         *)
cleanup(k) ==
  /\ shutdown.pc = "cleanup"
  /\ k \notin shutdown.cleanups
  /\ shutdown.store
  /\ shutdown' = [shutdown EXCEPT !.cleanups = @ \cup {k}]
  /\ localRoomCache' =
       IF k = "RoomService"
       THEN localRoomCache \cup {r \in RoomNames : rooms[r].exists /\ rooms[r].isActive}
       ELSE localRoomCache
  /\ UNCHANGED <<conns, out, handlers, nextHid, budget, dbVars, userMapVars,
                 roomCreationMutex, redisVars, now, limiter, histVars, sanVars,
                 isAlive, heartbeat, breaker, cache, roomSubscriptions, calls>>

(* disconnectDatabase(), once Promise.all has resolved *)
disconnectDatabase ==
  /\ shutdown.pc = "cleanup"
  /\ shutdown.cleanups = Cleanups
  /\ shutdown' = [shutdown EXCEPT !.pc = "redis", !.store = FALSE]
  /\ UNCHANGED <<conns, out, handlers, nextHid, budget, dbVars, userMapVars,
                 localRoomCache, roomCreationMutex, redisVars, now, limiter,
                 histVars, sanVars, isAlive, heartbeat, breaker, cache, roomSubscriptions, calls>>

(* disconnectRedis(): the three clients quit *)
disconnectRedis ==
  /\ shutdown.pc = "redis"
  /\ shutdown' = [shutdown EXCEPT !.pc = "done", !.bus = FALSE]
  /\ UNCHANGED <<conns, out, handlers, nextHid, budget, dbVars, userMapVars,
                 localRoomCache, roomCreationMutex, redisVars, now, limiter,
                 histVars, sanVars, isAlive, heartbeat, breaker, cache, roomSubscriptions, calls>>

(* process.exit(0) *)
shutdown_exit ==
  /\ shutdown.pc = "done"
  /\ shutdown' = [shutdown EXCEPT !.pc = "exit", !.exitCode = 0]
  /\ UNCHANGED <<conns, out, handlers, nextHid, budget, dbVars, userMapVars,
                 localRoomCache, roomCreationMutex, redisVars, now, limiter,
                 histVars, sanVars, isAlive, heartbeat, breaker, cache, roomSubscriptions, calls>>

(* ws.on('close') of a socket, while the process is alive *)
onClose(c) ==
  /\ shutdown.pc # "exit"
  /\ handleDisconnection(c)

(* A running server with no socket yet, on which sockets arrive and close  *)
(* and shutdown signals are delivered.                                     *)
InitShutdown ==
  /\ redisUp = TRUE
  /\ redisPubClient = PubClientFor(redisUp)
  /\ budget = 0
  /\ InitServer
  /\ InitSan
  /\ sanAgain = NotRun

NextShutdown ==
  \/ \E c \in Conns : onConnection(c)
  \/ \E c \in Conns : onClose(c)
  \/ shutdown_signal
  \/ TickToDrain
  \/ shutdown_drained
  \/ \E k \in Cleanups : cleanup(k)
  \/ disconnectDatabase
  \/ disconnectRedis
  \/ shutdown_exit

SpecShutdown == InitShutdown /\ [][NextShutdown]_vars

(* C20: shutdown runs once and in order.  From the first signal on no      *)
(* socket is in the fleet that was not in it before, and a socket that     *)
(* arrives is closed with 1001 without entering it; every socket open at   *)
(* the signal has been sent close 1001; the cleanups start only after the  *)
(* 5 s wait; the store is disconnected only after all three cleanups have  *)
(* finished, and the bus only after the store; further signals start no    *)
(* second sequence.                                                        *)
C20_ShutdownOrder ==
  /\ shutdown.sequences <= 1
  /\ shutdown.isShuttingDown <=> shutdown.sequences = 1
  /\ shutdown.isShuttingDown =>
       /\ \A c \in Conns : conns[c].state # "open"
       /\ shutdown.fleet \subseteq shutdown.sent1001
       /\ \A c \in shutdown.late :
            /\ conns[c].state = "rejected"
            /\ c \in shutdown.sent1001
            /\ c \notin shutdown.fleet
            /\ out[c] = <<>>
  /\ shutdown.pc \in {"cleanup", "redis", "done", "exit"} =>
       /\ shutdown.drainedAt >= 0
       /\ shutdown.drainedAt - shutdown.startedAt <= SHUTDOWN_DRAIN * TicksPerSecond
       /\ now >= shutdown.startedAt + SHUTDOWN_DRAIN * TicksPerSecond
  /\ shutdown.cleanups # {} => shutdown.drainedAt >= 0
  /\ ~shutdown.store => shutdown.cleanups = Cleanups
  /\ ~shutdown.bus => ~shutdown.store
  /\ shutdown.pc \in {"running", "drain"} => shutdown.cleanups = {} /\ shutdown.store
  /\ shutdown.pc \in {"running", "drain", "cleanup"} => shutdown.store /\ shutdown.bus

(* A shutdown that closed an open socket, turned a late socket away, took  *)
(* a second signal and ran to process.exit.                                *)
C20_ShutdownCompleted ==
  /\ shutdown.pc = "exit"
  /\ shutdown.signals = MaxSignals
  /\ shutdown.fleet # {}
  /\ shutdown.late # {}
  /\ ~shutdown.store /\ ~shutdown.bus

(* --------------------------- process exit ------------------------------ *)
(* chatServer.initialize() runs to its end: the stores are connected, the  *)
(* server listens and setupGracefulShutdown() has registered the handlers. *)
initialize_ok ==
  /\ shutdown.pc = "starting"
  /\ shutdown' = [shutdown EXCEPT !.pc = "running"]
  /\ UNCHANGED <<conns, out, handlers, nextHid, budget, dbVars, userMapVars,
                 localRoomCache, roomCreationMutex, redisVars, now, limiter,
                 histVars, sanVars, isAlive, heartbeat, breaker, cache, roomSubscriptions, calls>>

(* A step of initialize() throws: the catch logs it and calls              *)
(* process.exit(1).                                                        *)
initialize_failed ==
  /\ shutdown.pc = "starting"
  /\ shutdown' = [shutdown EXCEPT !.pc = "exit", !.exitCode = 1,
                                  !.store = FALSE, !.bus = FALSE]
  /\ UNCHANGED <<conns, out, handlers, nextHid, budget, dbVars, userMapVars,
                 localRoomCache, roomCreationMutex, redisVars, now, limiter,
                 histVars, sanVars, isAlive, heartbeat, breaker, cache, roomSubscriptions, calls>>

(* The process from `new ChatServer()` on. *)
InitProcess ==
  /\ redisUp = TRUE
  /\ redisPubClient = PubClientFor(redisUp)
  /\ budget = 0
  /\ conns = [c \in Conns |->
                [state |-> "none", authenticated |-> FALSE, userId |-> NoUser,
                 username |-> "", currentRoom |-> NoRoom]]
  /\ out = [c \in Conns |-> <<>>]
  /\ handlers = {}
  /\ nextHid = 1
  /\ users = {}
  /\ nextUserId = 1
  /\ activeConnections = [c \in Conns |-> NoUser]
  /\ userSockets = <<>>
  /\ rooms = [r \in RoomNames |->
                [exists |-> FALSE, isActive |-> FALSE, currentUsers |-> 0]]
  /\ localRoomCache = {}
  /\ roomCreationMutex = 0
  /\ memberships = {}
  /\ nextDocId = 1
  /\ messages = <<>>
  /\ redisMembers = [r \in RoomNames |-> {}]
  /\ redisTyping = [r \in RoomNames |-> NoTyping]
  /\ now = 0
  /\ limiter = [t \in {"send_message", "create_room"} |-> NoLimit]
  /\ joinMark = [c \in Conns |-> NoMark]
  /\ typingMark = [c \in Conns |-> NoMark]
  /\ sent = {}
  /\ received = <<>>
  /\ isAlive = [c \in Conns |-> FALSE]
  /\ heartbeat = NoHeartbeat
  /\ shutdown = [NotShuttingDown EXCEPT !.pc = "starting"]
  /\ breaker = NewBreaker
  /\ cache = NewCache
  /\ roomSubscriptions = {}
  /\ calls = <<>>
  /\ InitSan
  /\ sanAgain = NotRun

NextProcess ==
  \/ initialize_ok
  \/ initialize_failed
  \/ \E c \in Conns : onConnection(c)
  \/ \E c \in Conns : onClose(c)
  \/ shutdown_signal
  \/ shutdown_error
  \/ TickToDrain
  \/ shutdown_drained
  \/ \E k \in Cleanups : cleanup(k)
  \/ disconnectDatabase
  \/ disconnectRedis
  \/ shutdown_exit

SpecProcess == InitProcess /\ [][NextProcess]_vars

(* C21: the process exits with code 0 only at the end of a shutdown that a *)
(* signal (SIGTERM or SIGINT) started, and with code 1 when startup failed *)
(* or when an uncaught exception or an unhandled rejection brought it      *)
(* down.                                                                   *)
C21_ExitCodes ==
  /\ shutdown.exitCode = 0 => shutdown.cause \in {"SIGTERM", "SIGINT"}
  /\ shutdown.pc = "exit" =>
       shutdown.exitCode =
         IF shutdown.cause \in {"SIGTERM", "SIGINT"} THEN 0 ELSE 1

(* -------------------- reconnecting an online user ---------------------- *)
(* The ids of the user records that are online under a username. *)
OnlineWith(name) == {u.userId : u \in {x \in users : x.username = name /\ x.isOnline}}

AuthFrames == {[type |-> "auth", name |-> n, content |-> <<>>] : n \in Usernames}

InitAuth ==
  /\ redisUp = TRUE
  /\ redisPubClient = PubClientFor(redisUp)
  /\ budget = MaxAuthFrames
  /\ InitServer
  /\ InitSan

NextAuth ==
  \/ \E c \in Conns : handleConnection(c)
  \/ \E c \in Conns : \E m \in AuthFrames : Receive(c, m)
  \/ \E c \in Conns : handleDisconnection(c)
  \/ \E h \in handlers : authenticateUser_find(h)
  \/ \E h \in handlers : authenticateUser_save(h)
  \/ \E h \in handlers : disconnectUser(h)
  \/ \E h \in handlers : disconnectUser_delete(h)

SpecAuth == InitAuth /\ [][NextAuth]_vars

(* The connections other than c that are mapped to user uid. *)
Remaining(uid, c) == {d \in Conns \ {c} : activeConnections[d] = uid}

(* C23: disconnectUser(c) of an unknown connection changes nothing; of a   *)
(* known one it marks the user offline and leaves its memberships exactly  *)
(* when no other connection is mapped to the user, and when it returns c   *)
(* is in no connection map while every other connection is still mapped    *)
(* and registered as before.                                               *)
C23_DisconnectLastOnly ==
  [][\A h \in handlers :
       LET c == h.conn
           uid == activeConnections[c]
       IN /\ (h.pc = "d_user" /\ h \notin handlers' /\ uid = NoUser) =>
               /\ UNCHANGED <<users, memberships, activeConnections, userSockets>>
               /\ \A g \in handlers' : g.hid # h.hid
          /\ (h.pc = "d_user" /\ h \notin handlers' /\ uid # NoUser) =>
               IF Remaining(uid, c) = {}
               THEN /\ users' = setUserOffline(users, uid)
                    /\ memberships' = markUserOffline(memberships, uid)
               ELSE UNCHANGED <<users, memberships>>
          /\ (h.pc \in {"d_user", "d_delete"} /\ \A g \in handlers' : g.hid # h.hid) =>
               /\ activeConnections'[c] = NoUser
               /\ \A u \in DOMAIN userSockets' : c \notin userSockets'[u]
               /\ \A d \in Conns \ {c} :
                    /\ activeConnections'[d] = activeConnections[d]
                    /\ \A u \in DOMAIN userSockets :
                         d \in userSockets[u] =>
                           u \in DOMAIN userSockets' /\ d \in userSockets'[u]
  ]_vars

(* ----------------------- membership lifecycle -------------------------- *)
(* The membership documents of a (room, user) pair. *)
Pair(ms, roomId, userId) == {m \in ms : m.roomId = roomId /\ m.userId = userId}

(* C24: RoomMembership.joinRoom for a pair without a document inserts one  *)
(* active document (joinCount 1, leftAt null); for an inactive document it *)
(* reactivates that document, clears leftAt and raises joinCount by one;   *)
(* for an active document it changes nothing.  RoomMembership.leaveRoom    *)
(* deactivates the active document of the pair and sets leftAt, and        *)
(* changes nothing when the pair has no active document.  No other         *)
(* document is touched.  (Stated for calls whose loaded document is the    *)
(* current one.)                                                           *)
C24_MembershipLifecycle ==
  [][\A h \in handlers :
       /\ (h.pc = "j_mem" /\ h \notin handlers') =>
            LET cur == Pair(memberships, h.room, h.uid)
            IN /\ (cur = {} /\ h.mem = 0) =>
                    \E m \in memberships' :
                      /\ memberships' = memberships \cup {m}
                      /\ m \notin memberships
                      /\ m.roomId = h.room /\ m.userId = h.uid
                      /\ m.isActive /\ m.leftAt = "null" /\ m.joinCount = 1
               /\ \A m \in cur :
                    (m.id = h.mem /\ m.isActive = h.memActive
                       /\ m.joinCount = h.memJoinCount) =>
                      IF m.isActive
                      THEN memberships' = memberships
                      ELSE memberships' =
                             (memberships \ {m}) \cup
                               {[id |-> m.id, roomId |-> m.roomId, userId |-> m.userId,
                                 username |-> m.username, isActive |-> TRUE,
                                 joinCount |-> m.joinCount + 1, leftAt |-> "null"]}
       /\ (h.pc = "l_mem" /\ h \notin handlers') =>
            LET act == {m \in Pair(memberships, h.leaving, conns[h.conn].userId) :
                          m.isActive}
            IN IF act = {}
               THEN memberships' = memberships
               ELSE \E m \in act :
                      memberships' =
                        (memberships \ {m}) \cup
                          {[id |-> m.id, roomId |-> m.roomId, userId |-> m.userId,
                            username |-> m.username, isActive |-> FALSE,
                            joinCount |-> m.joinCount, leftAt |-> "date"]}
  ]_vars

(* A membership that was left and joined again. *)
C24_Rejoined ==
  \E m \in memberships : m.isActive /\ m.joinCount = 2 /\ m.leftAt = "null"

(* ------------------- send_message frames that are rejected ------------- *)
(* A content one character longer than MAX_MESSAGE_LENGTH. *)
Oversized == [i \in 1..(MAX_MESSAGE_LENGTH + 1) |-> "a"]

(* Contents: missing or empty, blank, harmful, too long, and a good one. *)
RejectContents == { <<>>, <<" ">>, <<"d", "r", "o", "p">>, Oversized, <<"h", "i">> }

RejectFrames ==
  {[type |-> "send_message", name |-> "", content |-> x] : x \in RejectContents}
  \cup {[type |-> "leave_room", name |-> "", content |-> <<>>]}

(* alice and bob in lobby; the bus client is ready or cannot reach Redis. *)
InitReject ==
  /\ redisUp = TRUE
  /\ redisPubClient \in {"ready", "down"}
  /\ budget = MaxRejectFrames
  /\ BothJoined
  /\ InitSan

NextReject ==
  \/ \E c \in Conns : \E m \in RejectFrames : Receive(c, m)
  \/ \E h \in handlers : leaveRoom_membership(h)
  \/ \E h \in handlers : leaveRoom_count(h)
  \/ \E h \in handlers : leaveRoom_decrement(h)
  \/ \E h \in handlers : handleEmptyRoom(h)
  \/ \E h \in handlers : leaveRoom_done(h)
  \/ \E h \in handlers : sendMessage_deliver(h)

SpecReject == InitReject /\ [][NextReject]_vars

(* In this step one INVALID_MESSAGE error frame is written to the open     *)
(* socket c and nothing is written to any other socket.                    *)
OneErrorTo(c) ==
  /\ conns[c].state = "open" =>
       /\ Len(out'[c]) = Len(out[c]) + 1
       /\ SubSeq(out'[c], 1, Len(out[c])) = out[c]
       /\ out'[c][Len(out'[c])].type = "error"
       /\ out'[c][Len(out'[c])].code = "INVALID_MESSAGE"
  /\ \A d \in Conns \ {c} : out'[d] = out[d]

(* C25: a send_message frame that passes the rate limit either starts the  *)
(* message service, and then the connection has a room and the content is  *)
(* a non-empty string of at most 4096 characters, or is answered by        *)
(* exactly one error frame to the sender with nothing stored and nothing   *)
(* written to another socket; and when the message service fails (invalid  *)
(* or harmful content, publish failure) the sender gets exactly one error  *)
(* frame and no other socket gets anything.                                *)
C25_RejectedSend ==
  [][/\ (Len(received') = Len(received) + 1
          /\ received'[Len(received')].type = "send_message"
          /\ received'[Len(received')].allowed) =>
           LET c == received'[Len(received')].conn
               started == handlers' \ handlers
           IN IF started # {}
              THEN /\ conns[c].currentRoom # NoRoom
                   /\ \A g \in started :
                        g.content # <<>> /\ Len(g.content) <= MAX_MESSAGE_LENGTH
                   /\ out' = out
              ELSE /\ OneErrorTo(c)
                   /\ messages' = messages
     /\ \A h \in handlers :
          (h.pc = "m_send" /\ h \notin handlers'
             /\ (\/ ~validateMessage(h.content)
                 \/ ~sanitizeContent(h.content).ok
                 \/ redisPubClient = "down")) =>
            OneErrorTo(h.conn)
  ]_vars

(* One sender was told that its content is too long and that the service   *)
(* refused a blank message; the other socket got nothing.                  *)
C25_TwoRejections ==
  \E c \in Conns :
    /\ \E i \in 1..Len(out[c]) : out[c][i].message = "Message too long"
    /\ \E i \in 1..Len(out[c]) : out[c][i].message = "Message cannot be empty"
    /\ \A d \in Conns \ {c} : \A i \in 1..Len(out[d]) : out[d][i].type # "error"

(* ------------------------- the circuit breaker ------------------------- *)
(* redisCircuitBreaker = new CircuitBreaker({ failureThreshold: 3,         *)
(* resetTimeout: 30000, ... }); resetTimeout is kept in seconds.           *)
failureThreshold == 3

resetTimeout == 30

MaxCalls == 7

MaxPending == 2

MaxCoolOffs == 2

MaxBreakerTime == MaxCoolOffs * resetTimeout * TicksPerSecond + 2

cooledOff_always(lastFailureTime, t) == TRUE

(* Date.now() - this.lastFailureTime >= this.resetTimeout *)
cooledOff(lastFailureTime, t) ==
  t - lastFailureTime >= resetTimeout * TicksPerSecond

onSuccess_keeps(b) ==
  IF b.state = "HALF_OPEN"
  THEN [b EXCEPT !.successCount = b.successCount + 1,
                 !.state = IF b.successCount + 1 >= 3 THEN "CLOSED" ELSE "HALF_OPEN"]
  ELSE b

(* CircuitBreaker.onSuccess() *)
onSuccess(b) ==
  LET cleared == [b EXCEPT !.failureCount = 0]
  IN  IF b.state = "HALF_OPEN"
      THEN [cleared EXCEPT !.successCount = b.successCount + 1,
                           !.state = IF b.successCount + 1 >= 3
                                     THEN "CLOSED" ELSE "HALF_OPEN"]
      ELSE cleared

(* CircuitBreaker.onFailure() at time t *)
onFailure(b, t) ==
  [b EXCEPT !.failureCount = b.failureCount + 1,
            !.lastFailureTime = t,
            !.state = IF b.failureCount + 1 >= failureThreshold
                      THEN "OPEN" ELSE b.state]

(* execute(operation, fallback) up to `await operation()`: an OPEN breaker *)
(* returns the fallback (or null) at once unless the cool-off is over, in  *)
(* which case it turns HALF_OPEN and, like a breaker that was not OPEN,    *)
(* invokes the operation.                                                  *)
execute(fallback) ==
  /\ breaker.started < MaxCalls
  /\ IF breaker.state = "OPEN" /\ ~cooledOff(breaker.lastFailureTime, now)
     THEN breaker' = [breaker EXCEPT
                        !.started = @ + 1,
                        !.last = [at |-> now, invoked |-> FALSE,
                                  ret |-> IF fallback THEN "fallback" ELSE "null"]]
     ELSE /\ Cardinality(breaker.pending) < MaxPending
          /\ LET b == IF breaker.state = "OPEN"
                      THEN [breaker EXCEPT !.state = "HALF_OPEN",
                                           !.successCount = 0, !.probeRun = 0]
                      ELSE breaker
             IN  breaker' = [b EXCEPT
                               !.started = @ + 1,
                               !.pending = @ \cup {[id |-> breaker.started + 1,
                                                    probe |-> b.state = "HALF_OPEN"]},
                               !.last = [at |-> now, invoked |-> TRUE,
                                         ret |-> "pending"]]
  /\ UNCHANGED <<conns, out, handlers, nextHid, budget, users, nextUserId, activeConnections, userSockets, rooms, localRoomCache, roomCreationMutex, memberships, nextDocId, messages, redisUp, redisPubClient, isAlive, heartbeat, shutdown, redisMembers, redisTyping, now, limiter, joinMark, typingMark, sent, received, sanIn, sanOut, sanAgain, cache, roomSubscriptions, calls>>

(* The operation of a pending call resolves: this.onSuccess().             *)
execute_return(call) ==
  /\ call \in breaker.pending
  /\ breaker' = [onSuccess(breaker) EXCEPT
                   !.pending = @ \ {call},
                   !.spared = IF breaker.state = "CLOSED"
                              THEN Max(@, breaker.run) ELSE @,
                   !.run = 0,
                   !.probeRun = IF breaker.state = "HALF_OPEN" THEN @ + 1 ELSE @]
  /\ UNCHANGED <<conns, out, handlers, nextHid, budget, users, nextUserId, activeConnections, userSockets, rooms, localRoomCache, roomCreationMutex, memberships, nextDocId, messages, redisUp, redisPubClient, isAlive, heartbeat, shutdown, redisMembers, redisTyping, now, limiter, joinMark, typingMark, sent, received, sanIn, sanOut, sanAgain, cache, roomSubscriptions, calls>>

(* The operation of a pending call rejects: this.onFailure().              *)
execute_catch(call) ==
  /\ call \in breaker.pending
  /\ LET b == onFailure(breaker, now)
     IN  breaker' = [b EXCEPT
                       !.pending = @ \ {call},
                       !.run = @ + 1,
                       !.probeRun = 0,
                       !.openedAt = IF breaker.state # "OPEN" /\ b.state = "OPEN"
                                    THEN now ELSE @]
  /\ UNCHANGED <<conns, out, handlers, nextHid, budget, users, nextUserId, activeConnections, userSockets, rooms, localRoomCache, roomCreationMutex, memberships, nextDocId, messages, redisUp, redisPubClient, isAlive, heartbeat, shutdown, redisMembers, redisTyping, now, limiter, joinMark, typingMark, sent, received, sanIn, sanOut, sanAgain, cache, roomSubscriptions, calls>>

(* Time passes until just after the last failure, or until the cool-off    *)
(* counted from the last failure or from the opening is about to end or    *)
(* has ended.                                                              *)
BreakerInstants ==
  (IF breaker.lastFailureTime >= 0
   THEN {breaker.lastFailureTime + 1,
         breaker.lastFailureTime + resetTimeout * TicksPerSecond - 1,
         breaker.lastFailureTime + resetTimeout * TicksPerSecond}
   ELSE {})
  \cup (IF breaker.openedAt >= 0
        THEN {breaker.openedAt + resetTimeout * TicksPerSecond}
        ELSE {})

TickToCoolOff ==
  \E e \in BreakerInstants :
    /\ e > now
    /\ Tick(e - now, MaxBreakerTime)

InitBreaker ==
  /\ redisUp = TRUE
  /\ redisPubClient = PubClientFor(redisUp)
  /\ budget = 0
  /\ InitServer
  /\ InitSan

NextBreaker ==
  \/ \E fallback \in BOOLEAN : execute(fallback)
  \/ \E call \in breaker.pending : execute_return(call)
  \/ \E call \in breaker.pending : execute_catch(call)
  \/ TickToCoolOff

SpecBreaker == InitBreaker /\ [][NextBreaker]_vars

(* C26: from CLOSED the breaker opens exactly when the third execute call  *)
(* in a row has failed; a call that succeeds wipes the failures counted so *)
(* far, so a CLOSED breaker has counted fewer than three failures in a row *)
(* and stays CLOSED until a third one.                                     *)
C26_OpensAfterThree ==
  [][breaker.state = "CLOSED" =>
       /\ breaker.failureCount = breaker.run
       /\ breaker.run < failureThreshold
       /\ breaker'.state \in {"CLOSED", "OPEN"}
       /\ (breaker'.state = "OPEN" <=> breaker'.run >= failureThreshold)]_vars

C26_OpenedAfterReset ==
  /\ breaker.state = "OPEN"
  /\ breaker.run = failureThreshold
  /\ breaker.spared = failureThreshold - 1
  /\ breaker.last.invoked

CoolOffRule(since) ==
  \A fallback \in BOOLEAN :
    (breaker.state = "OPEN" /\ execute(fallback)) =>
      IF now - since < resetTimeout * TicksPerSecond
      THEN /\ breaker'.pending = breaker.pending
           /\ breaker'.state = "OPEN"
           /\ breaker'.last.ret = IF fallback THEN "fallback" ELSE "null"
      ELSE /\ breaker'.state = "HALF_OPEN"
           /\ \E call \in breaker'.pending \ breaker.pending : call.probe

(* C27 as stated: an execute on an OPEN breaker less than 30 s after the   *)
(* breaker opened does not invoke the operation and returns the fallback   *)
(* (null without one); an execute 30 s or more after it opened makes the   *)
(* breaker HALF_OPEN and invokes the operation as a probe.                 *)
C27_CoolOffFromOpening == [][CoolOffRule(breaker.openedAt)]_vars

(* C27, the cool-off counted from the last recorded failure: an execute on *)
(* an OPEN breaker less than 30 s after lastFailureTime does not invoke    *)
(* the operation and returns the fallback (null without one); an execute   *)
(* 30 s or more after lastFailureTime makes the breaker HALF_OPEN and      *)
(* invokes the operation as a probe.                                       *)
C27_CoolOffFromLastFailure == [][CoolOffRule(breaker.lastFailureTime)]_vars

C27_ProbeAfterLateFailure ==
  /\ breaker.state = "HALF_OPEN"
  /\ breaker.lastFailureTime > breaker.openedAt
  /\ breaker.last.invoked
  /\ breaker.last.at = breaker.lastFailureTime + resetTimeout * TicksPerSecond
  /\ \E call \in breaker.pending : call.probe

(* C28: a probe that fails while the breaker is HALF_OPEN sends it back to *)
(* OPEN, whatever number of probes succeeded before.                       *)
C28_FailedProbeReopens ==
  [][\A call \in breaker.pending :
       (breaker.state = "HALF_OPEN" /\ call.probe /\ execute_catch(call))
         => breaker'.state = "OPEN"]_vars

(* C29: a HALF_OPEN breaker closes only on the third successful probe in a *)
(* row; a failed probe starts the count again.                             *)
C29_ThreeInARowToClose ==
  [][(breaker.state = "HALF_OPEN" /\ breaker'.state = "CLOSED")
       => breaker'.probeRun >= 3]_vars

(* --------------------------- the cache manager ------------------------- *)
(* localCache, dependencies and reverseDependencies are the Maps of the    *)
(* CacheManager; redis holds the keys written through RedisHelper with     *)
(* their expiry. Value 0 stands for null. Calls are made one at a time.    *)
(* The minute timer of setupCleanup only drops local entries that get      *)
(* already treats as absent.                                               *)
CacheKeys == {"a", "b", "c"}

CacheValues == {1, 2}

CACHE_TTL_ROOM_INFO == 300

CACHE_TTL_USER_INFO == 600

CacheTtls == {1, CACHE_TTL_USER_INFO}

MaxCacheOps == 3

MaxCacheTime == 2

Drop(map, key) == [k \in DOMAIN map \ {key} |-> map[k]]

Put(map, key, v) == [k \in DOMAIN map \cup {key} |-> IF k = key THEN v ELSE map[k]]

Members(map, key) == IF key \in DOMAIN map THEN map[key] ELSE {}

(* set.delete(member) on the Set stored under key, and the                 *)
(* `if (set.size === 0) map.delete(key)` that follows it                   *)
DeleteFrom(map, key, member) ==
  IF key \notin DOMAIN map THEN map
  ELSE IF map[key] \ {member} = {} THEN Drop(map, key)
  ELSE [map EXCEPT ![key] = @ \ {member}]

RECURSIVE DeleteFromAll(_, _, _)
DeleteFromAll(map, keys, member) ==
  IF keys = {} THEN map
  ELSE LET k == CHOOSE x \in keys : TRUE
       IN  DeleteFromAll(DeleteFrom(map, k, member), keys \ {k}, member)

(* setLocal(key, value, ttl) at time t, ttl in seconds *)
setLocal(c, key, value, ttl, t) ==
  [c EXCEPT !.localCache =
     Put(@, key, [value |-> value, expiresAt |-> t + ttl * TicksPerSecond])]

RECURSIVE AddTo(_, _, _)
AddTo(map, keys, member) ==
  IF keys = {} THEN map
  ELSE LET k == CHOOSE x \in keys : TRUE
       IN  AddTo(Put(map, k, Members(map, k) \cup {member}), keys \ {k}, member)

(* trackDependencies(key, dependencies) *)
trackDependencies(c, key, deps) ==
  IF deps = {} THEN c
  ELSE [c EXCEPT !.dependencies = Put(@, key, Members(@, key) \cup deps),
                 !.reverseDependencies = AddTo(@, deps, key)]

(* cleanupDependencies(key) *)
cleanupDependencies(c, key) ==
  LET first == IF key \in DOMAIN c.dependencies
               THEN [c EXCEPT !.reverseDependencies =
                                 DeleteFromAll(@, c.dependencies[key], key),
                              !.dependencies = Drop(@, key)]
               ELSE c
  IN  IF key \in DOMAIN first.reverseDependencies
      THEN [first EXCEPT !.dependencies =
                            DeleteFromAll(@, first.reverseDependencies[key], key),
                         !.reverseDependencies = Drop(@, key)]
      ELSE first

(* invalidate(key, false): the entry goes from both levels, then           *)
(* cleanupDependencies(key).                                               *)
invalidateOnly(c, key) ==
  cleanupDependencies(
    [c EXCEPT !.localCache = Drop(@, key), !.redis = Drop(@, key),
              !.declared = Drop(@, key)],
    key)

RECURSIVE invalidateEach(_, _)
invalidateEach(c, keys) ==
  IF keys = {} THEN c
  ELSE LET k == CHOOSE x \in keys : TRUE
       IN  invalidateEach(invalidateOnly(c, k), keys \ {k})

(* invalidate(key, cascade): `this.dependencies.get(key)` is the set that  *)
(* trackDependencies filled with the dependencies OF key; the loop         *)
(* invalidates each of them without cascading.                             *)
invalidate(c, key, cascade) ==
  LET dropped == [c EXCEPT !.localCache = Drop(@, key), !.redis = Drop(@, key),
                           !.declared = Drop(@, key)]
      dependents == Members(c.dependencies, key)
      cascaded == IF cascade THEN invalidateEach(dropped, dependents) ELSE dropped
  IN  cleanupDependencies(cascaded, key)

(* What get(key) returns without a loader at time t: the live local entry, *)
(* else the live Redis key, else null.                                     *)
cached(c, key, t) ==
  IF key \in DOMAIN c.localCache /\ c.localCache[key].expiresAt > t
  THEN c.localCache[key].value
  ELSE IF key \in DOMAIN c.redis /\ c.redis[key].expiresAt > t
  THEN c.redis[key].value
  ELSE 0

(* set(key, value, ttl, dependencies) at time t *)
set(c, key, value, ttl, deps, t) ==
  LET stored == [c EXCEPT !.redis =
                   Put(@, key, [value |-> value,
                                expiresAt |-> t + ttl * TicksPerSecond])]
      localTtl == IF ttl <= 300 THEN ttl ELSE 300
  IN  trackDependencies(setLocal(stored, key, value, localTtl, t), key, deps)

CacheFrame ==
  UNCHANGED <<conns, out, handlers, nextHid, budget, users, nextUserId, activeConnections, userSockets, rooms, localRoomCache, roomCreationMutex, memberships, nextDocId, messages, redisUp, redisPubClient, isAlive, heartbeat, shutdown, redisMembers, redisTyping, now, limiter, joinMark, typingMark, sent, received, sanIn, sanOut, sanAgain, breaker, roomSubscriptions, calls>>

cache_set(key, value, ttl, deps) ==
  /\ cache.ops < MaxCacheOps
  /\ cache' = [set(cache, key, value, ttl, deps, now) EXCEPT
                 !.ops = @ + 1, !.declared = Put(@, key, deps)]
  /\ CacheFrame

(* get(key, fallbackFn): loaded is what fallbackFn returns, 0 when there   *)
(* is no fallbackFn or it returns null.                                    *)
cache_get(key, loaded) ==
  /\ cache.ops < MaxCacheOps
  /\ LET value == cached(cache, key, now)
         local == IF key \in DOMAIN cache.localCache
                     /\ cache.localCache[key].expiresAt <= now
                  THEN [cache EXCEPT !.localCache = Drop(@, key)]
                  ELSE cache
         after == IF key \in DOMAIN local.localCache THEN local
                  ELSE IF value # 0 THEN setLocal(local, key, value, 60, now)
                  ELSE IF loaded # 0
                  THEN [set(local, key, loaded, CACHE_TTL_ROOM_INFO, {}, now)
                          EXCEPT !.declared = Put(@, key, {})]
                  ELSE local
     IN  cache' = [after EXCEPT
                     !.ops = @ + 1,
                     !.got = [key |-> key,
                              value |-> IF value # 0 THEN value ELSE loaded]]
  /\ CacheFrame

cache_invalidate(key) ==
  /\ cache.ops < MaxCacheOps
  /\ cache' = [invalidate(cache, key, TRUE) EXCEPT !.ops = @ + 1]
  /\ CacheFrame

InitCache ==
  /\ redisUp = TRUE
  /\ redisPubClient = PubClientFor(redisUp)
  /\ budget = 0
  /\ InitServer
  /\ InitSan

NextCache ==
  \/ \E key \in CacheKeys : \E value \in CacheValues : \E ttl \in CacheTtls :
       \E deps \in SUBSET (CacheKeys \ {key}) : cache_set(key, value, ttl, deps)
  \/ \E key \in CacheKeys : \E loaded \in {0} \cup CacheValues : cache_get(key, loaded)
  \/ \E key \in CacheKeys : cache_invalidate(key)
  \/ Tick(1, MaxCacheTime)

SpecCache == InitCache /\ [][NextCache]_vars

(* The keys that key was declared to depend on, directly or through other  *)
(* cached keys.                                                            *)
RECURSIVE DependsOn(_, _, _)
DependsOn(declared, keys, n) ==
  IF n = 0 THEN keys
  ELSE DependsOn(declared,
                 keys \cup UNION {Members(declared, k) : k \in keys}, n - 1)

(* C30: once key was set with dependencies, invalidating one of them, or   *)
(* a key one of them was in turn set to depend on, leaves no value of key  *)
(* for a get without loader to return.                                     *)
C30_DependentsInvalidated ==
  [][\A d \in CacheKeys :
       cache_invalidate(d) =>
         \A key \in DOMAIN cache.declared :
           d \in DependsOn(cache.declared, cache.declared[key],
                           Cardinality(CacheKeys))
             => cached(cache', key, now) = 0]_vars

(* Some membership of room r has been left.                                *)
LeftOnce(r) == \E m \in memberships : m.roomId = r /\ ~m.isActive

(* C32: a room's currentUsers is never negative, and when no handler is    *)
(* in flight a room that has been left is inactive exactly when its        *)
(* currentUsers is 0, however a join and the last member's leave           *)
(* interleaved.                                                            *)
C32_InactiveIffEmpty ==
  /\ \A r \in RoomNames : rooms[r].currentUsers >= 0
  /\ handlers = {} =>
       \A r \in RoomNames :
         (rooms[r].exists /\ LeftOnce(r)) =>
           (~rooms[r].isActive <=> rooms[r].currentUsers = 0)

(* Room r was deactivated.                                                 *)
Deactivated(r) == rooms[r].exists /\ ~rooms[r].isActive

(* Handler h is still running after the step.                              *)
GoesOn(h) == \E g \in handlers' : g.hid = h.hid

(* C37: a join_room for a room that was deactivated when it became empty   *)
(* is not refused, and the join that reaches the counter of such a room    *)
(* leaves it active with currentUsers 1.                                   *)
C37_RejoinReactivates ==
  [][\A h \in handlers :
       /\ (h.ret = "join_room" /\ Deactivated(h.room) /\ rooms[h.room].currentUsers = 0
           /\ (handleJoinRoom_find(h) \/ joinRoom_find(h))) => GoesOn(h)
       /\ (h.ret = "join_room" /\ Deactivated(h.room) /\ rooms[h.room].currentUsers = 0
           /\ joinRoom_increment(h) /\ GoesOn(h))
            => rooms'[h.room].isActive /\ rooms'[h.room].currentUsers = 1]_vars

(* The room a join_room handler found its connection in.                   *)
RoomBefore(h) == IF h.leaving # NoRoom THEN h.leaving ELSE conns[h.conn].currentRoom

(* C38: a join_room handler that ends with room_joined leaves its          *)
(* connection in the target room; one that ends with an error frame leaves *)
(* the connection in the room it was in before, still an active member of  *)
(* it, and that room active and counted.                                   *)
C38_JoinAllOrNothing ==
  [][\A h \in handlers :
       (/\ h.ret = "join_room"
        /\ conns[h.conn].state = "open"
        /\ \/ handleJoinRoom_find(h) \/ joinRoom_find(h) \/ joinRoom_membership(h)
           \/ joinRoom_increment(h) \/ joinRoom_reply(h)
        /\ ~GoesOn(h))
       => IF h.pc = "j_reply"
          THEN conns'[h.conn].currentRoom = h.room
          ELSE /\ conns'[h.conn].currentRoom = RoomBefore(h)
               /\ RoomBefore(h) # NoRoom =>
                    /\ rooms'[RoomBefore(h)].isActive
                    /\ rooms'[RoomBefore(h)].currentUsers > 0
                    /\ \E m \in memberships' :
                         /\ m.roomId = RoomBefore(h)
                         /\ m.userId = conns[h.conn].userId
                         /\ m.isActive]_vars

(* The create_room handlers between acquire() and release().               *)
InCreation == {h \in handlers : h.pc = "cr_save"}

(* The step wrote one error frame saying that the room exists to the       *)
(* socket of handler h.                                                    *)
RoomExistsReply(h) ==
  /\ Len(out'[h.conn]) = Len(out[h.conn]) + 1
  /\ out'[h.conn][Len(out'[h.conn])].type = "error"
  /\ out'[h.conn][Len(out'[h.conn])].message \in {"Room already exists", "ROOM_EXISTS"}

(* C33: at most one create_room handler is between acquiring and releasing *)
(* the creation mutex, the mutex is held exactly while a handler is there; *)
(* a create for a name that no room has creates the room, and a create for *)
(* a name that a room has changes no room and ends with a room-exists      *)
(* error.                                                                  *)
C33_CreationSerialized ==
  [][/\ Cardinality(InCreation) <= 1
     /\ roomCreationMutex # 0 <=> InCreation # {}
     /\ \A h \in InCreation : roomCreationMutex = h.hid
     /\ \A h \in handlers :
          /\ (createRoom_lock(h) /\ rooms[h.room].exists)
               => /\ rooms' = rooms
                  /\ conns[h.conn].state = "open" => (GoesOn(h) \/ RoomExistsReply(h))
          /\ (createRoom_save(h) /\ rooms[h.room].exists)
               => /\ rooms' = rooms
                  /\ ~GoesOn(h)
                  /\ roomCreationMutex' = 0
                  /\ conns[h.conn].state = "open" => RoomExistsReply(h)
          /\ (createRoom_save(h) /\ ~rooms[h.room].exists)
               => rooms'[h.room].exists /\ roomCreationMutex' = 0]_vars

C33_OneInsideOneWaiting ==
  \E h \in InCreation : \E g \in handlers :
    /\ g.pc = "cr_lock"
    /\ g.room = h.room
    /\ ROOM_NAME_test(h.room)
    /\ roomCreationMutex = h.hid

(* C40: when no handler is in flight, a connection id is mapped to a user  *)
(* exactly when it is in that user's socket set, no connection id is in    *)
(* the sets of two users, and every user that is online has a socket.      *)
C40_RegistryConsistent ==
  handlers = {} =>
    /\ \A c \in Conns :
         /\ activeConnections[c] # NoUser =>
              /\ activeConnections[c] \in DOMAIN userSockets
              /\ c \in userSockets[activeConnections[c]]
         /\ \A u \in DOMAIN userSockets :
              c \in userSockets[u] => activeConnections[c] = u
    /\ \A u \in users :
         u.isOnline => /\ u.userId \in DOMAIN userSockets
                       /\ userSockets[u.userId] # {}

(* C36: handling a typing_start of user U in room R leaves U in R's typing *)
(* set (when Redis is reachable); handling a typing_stop leaves U out of   *)
(* it, writes no frame to U's own socket, and the typing_update it sends   *)
(* to the room does not list U.                                            *)
C36_TypingStartStop ==
  [][\A h \in handlers :
       handleTypingIndicator_update(h) =>
         LET uid == conns[h.conn].userId
         IN  /\ (h.kind = "typing_start" /\ redisUp)
                  => uid \in redisTyping'[h.room].members
             /\ h.kind = "typing_stop"
                  => /\ uid \notin redisTyping'[h.room].members
                     /\ out'[h.conn] = out[h.conn]
                     /\ \A p \in Conns :
                          Len(out'[p]) > Len(out[p]) =>
                            /\ out'[p][Len(out'[p])].type = "typing_update"
                            /\ conns[h.conn].username
                                 \notin out'[p][Len(out'[p])].users]_vars

(* ------------------------- a second room ------------------------------- *)
MaxRoomFrames == 2

RoomFrames ==
  {[type |-> t, name |-> r, content |-> <<>>] :
     t \in {"create_room", "join_room"}, r \in RoomNames}

InitRooms ==
  /\ redisUp = TRUE
  /\ redisPubClient = PubClientFor(redisUp)
  /\ budget = MaxRoomFrames
  /\ SetupDone
  /\ InitSan

NextRooms ==
  \/ \E c \in Conns : \E m \in RoomFrames : Receive(c, m)
  \/ \E h \in handlers : createRoom_lock(h)
  \/ \E h \in handlers : createRoom_save(h)
  \/ \E h \in handlers : handleJoinRoom_find(h)
  \/ \E h \in handlers : joinRoom_find(h)
  \/ \E h \in handlers : joinRoom_membership(h)
  \/ \E h \in handlers : joinRoom_count(h)
  \/ \E h \in handlers : joinRoom_increment(h)
  \/ \E h \in handlers : joinRoom_reply(h)
  \/ \E h \in handlers : leaveRoom_membership(h)
  \/ \E h \in handlers : leaveRoom_count(h)
  \/ \E h \in handlers : leaveRoom_decrement(h)
  \/ \E h \in handlers : handleEmptyRoom(h)
  \/ \E h \in handlers : leaveRoom_done(h)

SpecRooms == InitRooms /\ [][NextRooms]_vars

(* The connections of user uid.                                            *)
ConnectionsOf(uid) ==
  {c \in Conns : conns[c].state = "open" /\ conns[c].userId = uid}

ActiveRoomsOf(uid) ==
  {r \in RoomNames : \E m \in memberships :
     m.roomId = r /\ m.userId = uid /\ m.isActive}

(* C39: when no handler is in flight a user with a single connection has   *)
(* active memberships in at most one room; the step that moves the         *)
(* connection's current room from one room to another finds the membership *)
(* in the previous room deactivated.                                       *)
C39_OneRoomPerConnection ==
  [][/\ handlers = {} =>
          \A c \in Conns :
            (conns[c].state = "open" /\ conns[c].authenticated
             /\ ConnectionsOf(conns[c].userId) = {c})
              => Cardinality(ActiveRoomsOf(conns[c].userId)) <= 1
     /\ \A c \in Conns :
          (/\ conns[c].currentRoom # NoRoom
           /\ conns'[c].currentRoom # NoRoom
           /\ conns'[c].currentRoom # conns[c].currentRoom)
            => conns[c].currentRoom \notin ActiveRoomsOf(conns[c].userId)]_vars

(* C35: when no handler is in flight and the server has a subscriber       *)
(* client, the channels of room r are subscribed exactly when some local   *)
(* connection has r as its current room.                                   *)
C35_SubscribedIffHeld ==
  (handlers = {} /\ redisUp) =>
    \A r \in RoomNames :
      r \in roomSubscriptions
        <=> \E c \in Conns : conns[c].state = "open" /\ conns[c].currentRoom = r

(* --------------- MessageService, called as a service ------------------- *)
(* calls records every sendMessage, getMessageHistory, editMessage and     *)
(* deleteMessage call: its arguments, the await it stands at (pc), and,    *)
(* once pc is "done", what it returned. found and stored are the message   *)
(* document as findOne returned it and as the call left it, at is the time *)
(* of that read, and ended is the number of calls started when the call    *)
(* returned. A message takes the number of the call that created it as     *)
(* its messageId. Every RedisHelper operation goes through the circuit     *)
(* breaker; ok says whether Redis answers it.                              *)
ServiceUsers == {"u1", "u2"}

MaxServiceCalls == 3

MaxEditCalls == 3

fiveMinutes == 5 * 60

MaxEditTime == fiveMinutes * TicksPerSecond + 2

NoMessage ==
  [id |-> 0, roomId |-> "", userId |-> "", content |-> <<>>, timestamp |-> -1,
   type |-> "", edited |-> FALSE, editedAt |-> -1]

NewCall(op, roomId, messageId, userId, content, pc) ==
  [op |-> op, roomId |-> roomId, messageId |-> messageId, userId |-> userId,
   content |-> content, pc |-> pc, success |-> FALSE, error |-> "",
   value |-> <<>>, found |-> NoMessage, stored |-> NoMessage, at |-> -1,
   ended |-> 0]

Returned(call, success, error) ==
  [call EXCEPT !.pc = "done", !.success = success, !.error = error,
               !.ended = Len(calls)]

(* `room:${roomId}:messages` *)
messagesKey(roomId) == <<"room", roomId, "messages">>

(* Message.findOne({ messageId }) *)
Message_findOne(messageId) ==
  IF \E k \in 1..Len(messages) : messages[k].id = messageId
  THEN messages[CHOOSE k \in 1..Len(messages) : messages[k].id = messageId]
  ELSE NoMessage

(* message.save() after content, metadata.edited and metadata.editedAt     *)
(* were assigned: the three paths are written to the stored document.      *)
Message_save(messageId, content, t) ==
  [k \in 1..Len(messages) |->
     IF messages[k].id = messageId
     THEN [messages[k] EXCEPT !.content = content, !.edited = TRUE, !.editedAt = t]
     ELSE messages[k]]

(* CircuitBreaker.execute: whether the operation is invoked at time t *)
invoked(b, t) == b.state # "OPEN" \/ cooledOff(b.lastFailureTime, t)

(* CircuitBreaker.execute: the breaker after a call at time t whose        *)
(* operation, if invoked, resolved (ok) or rejected                        *)
executed(b, ok, t) ==
  IF ~invoked(b, t) THEN b
  ELSE LET entered == IF b.state = "OPEN"
                      THEN [b EXCEPT !.state = "HALF_OPEN", !.successCount = 0]
                      ELSE b
       IN  IF ok THEN onSuccess(entered) ELSE onFailure(entered, t)

(* RedisHelper.delete(key): the key goes when the operation is invoked and *)
(* Redis answers; otherwise the fallback returns false.                    *)
RedisHelper_delete(c, key, ok, t) ==
  IF invoked(breaker, t) /\ ok THEN [c EXCEPT !.redis = Drop(@, key)] ELSE c

ServiceFrame ==
  UNCHANGED <<conns, out, handlers, nextHid, budget, users, nextUserId, activeConnections, userSockets, rooms, localRoomCache, roomCreationMutex, memberships, nextDocId, redisUp, redisPubClient, isAlive, heartbeat, shutdown, redisMembers, redisTyping, now, limiter, joinMark, typingMark, sent, received, sanIn, sanOut, sanAgain, roomSubscriptions>>

(* MessageService.sendMessage up to `await Message.createMessage`          *)
MessageService_sendMessage(roomId, userId, content, max) ==
  /\ Len(calls) < max
  /\ LET call == NewCall("send", roomId, Len(calls) + 1, userId, content, "invalidate")
     IN  IF ~validateMessage(content)
         THEN /\ calls' = Append(calls, Returned(call, FALSE, "invalid"))
              /\ UNCHANGED messages
         ELSE IF ~sanitizeContent(content).ok
         THEN /\ calls' = Append(calls, Returned(call, FALSE, "Failed to send message"))
              /\ UNCHANGED messages
         ELSE /\ messages' = Append(messages,
                               [NoMessage EXCEPT
                                  !.id = call.messageId, !.roomId = roomId,
                                  !.userId = userId,
                                  !.content = sanitizeContent(content).value,
                                  !.timestamp = now, !.type = "message"])
              /\ calls' = Append(calls, call)
  /\ UNCHANGED <<cache, breaker>>
  /\ ServiceFrame

(* ... `await cacheManager.invalidate(...)`, the publish and the return:   *)
(* the key leaves localCache; it leaves Redis if RedisHelper.delete did    *)
(* delete it. No set of this key declares dependencies.                    *)
MessageService_sendMessage_invalidate(i, ok) ==
  /\ calls[i].op = "send" /\ calls[i].pc = "invalidate"
  /\ LET key == messagesKey(calls[i].roomId)
         local == [cache EXCEPT !.localCache = Drop(@, key)]
     IN  cache' = cleanupDependencies(RedisHelper_delete(local, key, ok, now), key)
  /\ breaker' = executed(breaker, ok, now)
  /\ calls' = [calls EXCEPT ![i] = Returned(@, TRUE, "")]
  /\ UNCHANGED messages
  /\ ServiceFrame

(* MessageService.editMessage up to `await Message.findOne`                *)
MessageService_editMessage(messageId, userId, newContent) ==
  /\ Len(calls) < MaxEditCalls
  /\ LET call == NewCall("edit", "", messageId, userId, newContent, "find")
     IN  calls' = Append(calls, IF validateMessage(newContent) THEN call
                                ELSE Returned(call, FALSE, "invalid"))
  /\ UNCHANGED <<messages, cache, breaker>>
  /\ ServiceFrame

(* ... the document arrives: the owner and age tests, editContent,         *)
(* RedisHelper.delete, the publish and the return                          *)
MessageService_editMessage_found(i, ok) ==
  /\ calls[i].op = "edit" /\ calls[i].pc = "find"
  /\ LET message == Message_findOne(calls[i].messageId)
         call == [calls[i] EXCEPT !.found = message, !.at = now]
         refused == IF message = NoMessage THEN "Message not found"
                    ELSE IF message.userId # call.userId THEN "Unauthorized"
                    ELSE IF message.timestamp < now - fiveMinutes * TicksPerSecond
                    THEN "Message is too old to edit"
                    ELSE IF ~sanitizeContent(call.content).ok
                    THEN "Failed to edit message"
                    ELSE ""
     IN  IF refused # ""
         THEN /\ calls' = [calls EXCEPT ![i] =
                             Returned([call EXCEPT !.stored = message], FALSE, refused)]
              /\ UNCHANGED <<messages, cache, breaker>>
         ELSE /\ messages' = Message_save(call.messageId,
                                          sanitizeContent(call.content).value, now)
              /\ cache' = RedisHelper_delete(cache, messagesKey(message.roomId), ok, now)
              /\ breaker' = executed(breaker, ok, now)
              /\ calls' = [calls EXCEPT ![i] =
                             Returned([call EXCEPT !.stored =
                                         [message EXCEPT
                                            !.content = sanitizeContent(call.content).value,
                                            !.edited = TRUE, !.editedAt = now]],
                                      TRUE, "")]
  /\ ServiceFrame

(* MessageService.deleteMessage up to `await Message.findOne`              *)
MessageService_deleteMessage(messageId, userId) ==
  /\ Len(calls) < MaxEditCalls
  /\ calls' = Append(calls, NewCall("delete", "", messageId, userId, <<>>, "find"))
  /\ UNCHANGED <<messages, cache, breaker>>
  /\ ServiceFrame

(* ... the document arrives: the owner test, the save of the tombstone,    *)
(* RedisHelper.delete, the publish and the return                          *)
MessageService_deleteMessage_found(i, ok) ==
  /\ calls[i].op = "delete" /\ calls[i].pc = "find"
  /\ LET message == Message_findOne(calls[i].messageId)
         call == [calls[i] EXCEPT !.found = message, !.at = now]
         refused == IF message = NoMessage THEN "Message not found"
                    ELSE IF message.userId # call.userId THEN "Unauthorized"
                    ELSE ""
         deleted == <<"[", "M", "e", "s", "s", "a", "g", "e", " ",
                      "d", "e", "l", "e", "t", "e", "d", "]">>
     IN  IF refused # ""
         THEN /\ calls' = [calls EXCEPT ![i] =
                             Returned([call EXCEPT !.stored = message], FALSE, refused)]
              /\ UNCHANGED <<messages, cache, breaker>>
         ELSE /\ messages' = Message_save(call.messageId, deleted, now)
              /\ cache' = RedisHelper_delete(cache, messagesKey(message.roomId), ok, now)
              /\ breaker' = executed(breaker, ok, now)
              /\ calls' = [calls EXCEPT ![i] =
                             Returned([call EXCEPT !.stored =
                                         [message EXCEPT !.content = deleted,
                                            !.edited = TRUE, !.editedAt = now]],
                                      TRUE, "")]
  /\ ServiceFrame

(* Time passes until the edit window of a stored message is about to end   *)
(* or has just ended.                                                      *)
TickToWindow ==
  \E k \in 1..Len(messages) : \E d \in {0, 1} :
    LET e == messages[k].timestamp + fiveMinutes * TicksPerSecond + d
    IN  e > now /\ Tick(e - now, MaxEditTime)

EditContents == {<<>>, <<"y">>}

InitEdit ==
  /\ redisUp = TRUE
  /\ redisPubClient = PubClientFor(redisUp)
  /\ budget = 0
  /\ InitServer
  /\ InitSan

NextEdit ==
  \/ \E u \in ServiceUsers : MessageService_sendMessage("lobby", u, <<"h", "i">>, 1)
  \/ \E i \in 1..Len(calls) : \E ok \in BOOLEAN : MessageService_sendMessage_invalidate(i, ok)
  \/ \E id \in 1..2 : \E u \in ServiceUsers : \E content \in EditContents :
       MessageService_editMessage(id, u, content)
  \/ \E i \in 1..Len(calls) : \E ok \in BOOLEAN : MessageService_editMessage_found(i, ok)
  \/ \E id \in 1..2 : \E u \in ServiceUsers : MessageService_deleteMessage(id, u)
  \/ \E i \in 1..Len(calls) : \E ok \in BOOLEAN : MessageService_deleteMessage_found(i, ok)
  \/ TickToWindow

SpecEdit == InitEdit /\ [][NextEdit]_vars

(* C34: an edit or a delete of a message that has returned succeeded only  *)
(* if the requester owns the message and no more than 5 minutes had passed *)
(* since the message was sent; in every other case it failed and left the  *)
(* stored message as it was.                                               *)
C34_OwnerWithinWindow ==
  \A i \in 1..Len(calls) :
    (calls[i].op \in {"edit", "delete"} /\ calls[i].pc = "done") =>
      LET call == calls[i]
          allowed == /\ call.found # NoMessage
                     /\ call.found.userId = call.userId
                     /\ call.at - call.found.timestamp <= fiveMinutes * TicksPerSecond
      IN  /\ call.success => allowed
          /\ ~allowed => call.stored = call.found

(* ------------- MessageService.getMessageHistory ------------------------ *)
(* value is the list of messageIds returned. With at most MaxServiceCalls  *)
(* messages the limit of 20 never cuts the list.                           *)
(* Message.getRoomHistory(roomId, limit), formatted and reversed: the      *)
(* messages of the room, oldest first                                      *)
Message_getRoomHistory(roomId) ==
  LET found == SelectSeq(messages, LAMBDA m : m.roomId = roomId)
  IN  [k \in 1..Len(found) |-> found[k].id]

(* cacheManager.get(key, fallbackFn) up to `await RedisHelper.get(key)`:   *)
(* a live local entry is returned, an expired one is deleted.              *)
MessageService_getMessageHistory(roomId) ==
  /\ Len(calls) < MaxServiceCalls
  /\ LET key == messagesKey(roomId)
         call == NewCall("history", roomId, 0, "", <<>>, "redis")
     IN  IF key \in DOMAIN cache.localCache /\ cache.localCache[key].expiresAt > now
         THEN /\ calls' = Append(calls,
                            Returned([call EXCEPT !.value = cache.localCache[key].value],
                                     TRUE, ""))
              /\ UNCHANGED cache
         ELSE /\ calls' = Append(calls, call)
              /\ cache' = [cache EXCEPT !.localCache = Drop(@, key)]
  /\ UNCHANGED <<messages, breaker>>
  /\ ServiceFrame

(* ... RedisHelper.get answers: a value found in Redis is copied to        *)
(* localCache for 60 seconds and returned; null leads to fallbackFn.       *)
get_redis(i, ok) ==
  /\ calls[i].op = "history" /\ calls[i].pc = "redis"
  /\ LET key == messagesKey(calls[i].roomId)
     IN  IF /\ invoked(breaker, now) /\ ok
            /\ key \in DOMAIN cache.redis /\ cache.redis[key].expiresAt > now
         THEN /\ cache' = setLocal(cache, key, cache.redis[key].value, 60, now)
              /\ calls' = [calls EXCEPT ![i] =
                             Returned([@ EXCEPT !.value = cache.redis[key].value],
                                      TRUE, "")]
         ELSE /\ calls' = [calls EXCEPT ![i].pc = "load"]
              /\ UNCHANGED cache
  /\ breaker' = executed(breaker, ok, now)
  /\ UNCHANGED messages
  /\ ServiceFrame

(* ... fallbackFn: Message.getRoomHistory answers                          *)
get_load(i) ==
  /\ calls[i].op = "history" /\ calls[i].pc = "load"
  /\ calls' = [calls EXCEPT ![i].pc = "set",
                            ![i].value = Message_getRoomHistory(calls[i].roomId)]
  /\ UNCHANGED <<messages, cache, breaker>>
  /\ ServiceFrame

(* ... `await this.set(key, value, CONSTANTS.CACHE_TTL.ROOM_INFO)` and the *)
(* return: Redis takes the value if RedisHelper.setWithTTL wrote it,       *)
(* localCache takes it in any case.                                        *)
get_set(i, ok) ==
  /\ calls[i].op = "history" /\ calls[i].pc = "set"
  /\ LET key == messagesKey(calls[i].roomId)
     IN  cache' = IF invoked(breaker, now) /\ ok
                  THEN set(cache, key, calls[i].value, CACHE_TTL_ROOM_INFO, {}, now)
                  ELSE setLocal(cache, key, calls[i].value, CACHE_TTL_ROOM_INFO, now)
  /\ breaker' = executed(breaker, ok, now)
  /\ calls' = [calls EXCEPT ![i] = Returned(@, TRUE, "")]
  /\ UNCHANGED messages
  /\ ServiceFrame

InitHistory ==
  /\ redisUp = TRUE
  /\ redisPubClient = PubClientFor(redisUp)
  /\ budget = 0
  /\ InitServer
  /\ InitSan

NextHistory ==
  \/ MessageService_sendMessage("lobby", "u1", <<"h", "i">>, MaxServiceCalls)
  \/ \E i \in 1..Len(calls) : \E ok \in BOOLEAN : MessageService_sendMessage_invalidate(i, ok)
  \/ MessageService_getMessageHistory("lobby")
  \/ \E i \in 1..Len(calls) : \E ok \in BOOLEAN : get_redis(i, ok)
  \/ \E i \in 1..Len(calls) : get_load(i)
  \/ \E i \in 1..Len(calls) : \E ok \in BOOLEAN : get_set(i, ok)
  \/ TickToCoolOff

SpecHistory == InitHistory /\ [][NextHistory]_vars

(* C31: once a send_message in room R has returned successfully, every     *)
(* history request for R that starts afterwards returns a list that        *)
(* contains the message.                                                   *)
C31_HistoryHasSentMessage ==
  \A i \in 1..Len(calls) : \A j \in 1..Len(calls) :
    ( /\ calls[i].op = "send" /\ calls[i].pc = "done" /\ calls[i].success
      /\ calls[j].op = "history" /\ calls[j].pc = "done"
      /\ calls[j].roomId = calls[i].roomId
      /\ j > calls[i].ended )
    => \E k \in 1..Len(calls[j].value) : calls[j].value[k] = calls[i].messageId

====
